---------------------------- MODULE Spec2Model ----------------------------
(***************************************************************************)
(* Model of the RR-Accounting backend (backend/app/main.py, models.py,     *)
(* permissions.py): the access gate, the entity store and the request      *)
(* handlers for invoices, invoice items, commissions, customers, users     *)
(* and memberships.                                                        *)
(*                                                                         *)
(* Money is counted in cents (Numeric(12,2)), percentages in hundredths of *)
(* a percent (Numeric(5,2)): 15.00% is 1500, 1000.00 is 100000.            *)
(*                                                                         *)
(* An Enum column holds a member of the Python enum; it is written here as *)
(* the member's NAME ("DRAFT", "ISSUED", "PAID").  The request handlers    *)
(* assign plain str values ("draft", "issued", "paid") taken from their    *)
(* status_map; a str is a different value from every enum member, and the  *)
(* model keeps the two apart.  stored_status is the conversion the column  *)
(* applies when the row is written and read back.                          *)
(***************************************************************************)
EXTENDS Integers, FiniteSets, Sequences, TLC

\* ------------------------------------------------------------------------
\* Bounds of the model
\* ------------------------------------------------------------------------
MaxUsers == 5
MaxCompanies == 3
MaxCustomers == 3
MaxInvoices == 1
MaxCommissions == 1
MaxItems == 1
MaxRequests == 2
MaxProducts == 1
\* The commissions that concurrent snapshot requests may insert
MaxSnapshots == 2

\* ------------------------------------------------------------------------
\* Values
\* ------------------------------------------------------------------------
None == 0

RoleNames == {"OWNER", "ACCOUNTANT", "SALES"}

\* A variant of the matrix in which SALES may also create customers.
PERMISSION_MATRIX_sales_creates_customers ==
  [k \in {"invoice:create", "invoice:update", "invoice:delete", "invoice:lock",
          "invoice:unlock", "invoice:read", "commission:read",
          "commission:approve", "commission:mark_paid",
          "commission:create_snapshot", "customer:read", "customer:create",
          "customer:update", "customer:delete", "product:read",
          "product:create", "product:update", "product:delete",
          "product:import", "audit:read"} |->
     CASE k \in {"invoice:read", "commission:read", "customer:read",
                 "product:read", "customer:create"} ->
            {"OWNER", "ACCOUNTANT", "SALES"}
       [] k \in {"invoice:create", "commission:create_snapshot",
                 "customer:update", "customer:delete", "audit:read"} ->
            {"OWNER", "ACCOUNTANT"}
       [] OTHER -> {"OWNER"}]

\* permissions.py: PERMISSION_MATRIX
PERMISSION_MATRIX ==
  [k \in {"invoice:create", "invoice:update", "invoice:delete", "invoice:lock",
          "invoice:unlock", "invoice:read", "commission:read",
          "commission:approve", "commission:mark_paid",
          "commission:create_snapshot", "customer:read", "customer:create",
          "customer:update", "customer:delete", "product:read",
          "product:create", "product:update", "product:delete",
          "product:import", "audit:read"} |->
     CASE k = "invoice:create" -> {"OWNER", "ACCOUNTANT"}
       [] k = "invoice:update" -> {"OWNER"}
       [] k = "invoice:delete" -> {"OWNER"}
       [] k = "invoice:lock" -> {"OWNER"}
       [] k = "invoice:unlock" -> {"OWNER"}
       [] k = "invoice:read" -> {"OWNER", "ACCOUNTANT", "SALES"}
       [] k = "commission:read" -> {"OWNER", "ACCOUNTANT", "SALES"}
       [] k = "commission:approve" -> {"OWNER"}
       [] k = "commission:mark_paid" -> {"OWNER"}
       [] k = "commission:create_snapshot" -> {"OWNER", "ACCOUNTANT"}
       [] k = "customer:read" -> {"OWNER", "ACCOUNTANT", "SALES"}
       [] k = "customer:create" -> {"OWNER", "ACCOUNTANT"}
       [] k = "customer:update" -> {"OWNER", "ACCOUNTANT"}
       [] k = "customer:delete" -> {"OWNER", "ACCOUNTANT"}
       [] k = "product:read" -> {"OWNER", "ACCOUNTANT", "SALES"}
       [] k = "product:create" -> {"OWNER"}
       [] k = "product:update" -> {"OWNER"}
       [] k = "product:delete" -> {"OWNER"}
       [] k = "product:import" -> {"OWNER"}
       [] OTHER -> {"OWNER", "ACCOUNTANT"}]

\* models.py: UserRole values, and main.py: _normalize_role
UserRoleValues == {"owner", "accountant", "sales"}

_normalize_role(role) ==
  CASE role = "owner" -> "OWNER"
    [] role = "accountant" -> "ACCOUNTANT"
    [] role = "sales" -> "SALES"
    [] OTHER -> "INVALID"

\* models.py: InvoiceStatus member names, CommissionStatus member names
InvoiceStatus == {"DRAFT", "ISSUED", "PAID"}
CommissionStatus == {"PENDING", "APPROVED", "PAID"}

\* The default rate of the snapshot (models.py:477, main.py:1628)
DefaultPercent == 2000

\* ------------------------------------------------------------------------
\* State: the persistent store, and the last request with its outcome
\* ------------------------------------------------------------------------
VARIABLES
  companies,     \* set of company ids
  users,         \* set of [id, is_active]
  memberships,   \* set of [company_id, user_id, role, commission_percent]
  customers,     \* set of [id, company_id]
  products,      \* set of [id, company_id]
  invoices,      \* set of [id, company_id, customer_id, sold_by_user_id,
                 \*         created_by_user_id, status, total_amount, is_locked]
  items,         \* set of [id, invoice_id, quantity, unit_price, discount,
                 \*         total_amount]
  commissions,   \* set of [id, company_id, invoice_id, user_id, base_amount,
                 \*         percent, commission_amount, status]
  audit_logs,    \* set of [id, company_id, user_id, entity_id]
  seq,           \* the serial id generators, one per table
  last,          \* the last request: [op, user, hdr, id, code, ret]
  sessions       \* the update_invoice requests that run step by step:
                 \* request -> [pc, user, hdr, id, status, total, loaded,
                 \*             pending, code]

store == <<companies, users, memberships, customers, products, invoices,
           items, commissions, audit_logs, seq>>
vars == <<companies, users, memberships, customers, products, invoices, items,
          commissions, audit_logs, seq, last, sessions>>


\* ------------------------------------------------------------------------
\* Initial state: the fixture of rbac_runtime_smoke_test.setup_base_fixtures:
\* company A (1) with an owner (1), an accountant (2) and a salesperson (3),
\* company B (2) with an owner (4), one customer in each company.
\* ------------------------------------------------------------------------
Idle == [op |-> "idle", user |-> None, hdr |-> None, id |-> None,
         code |-> 0, ret |-> {}]

\* The requests that may run concurrently, and a request not yet received
Requests == 1..MaxRequests
NoSession == [pc |-> "none", user |-> None, hdr |-> None, id |-> None,
              company_id |-> None, status |-> "", total |-> None,
              loaded |-> {}, pending |-> {}, code |-> 0]

Init ==
  /\ companies = {1, 2}
  /\ users = {[id |-> n, is_active |-> TRUE] : n \in 1..4}
  /\ memberships =
       { [company_id |-> 1, user_id |-> 1, role |-> "owner",
          commission_percent |-> 0],
         [company_id |-> 1, user_id |-> 2, role |-> "accountant",
          commission_percent |-> 1500],
         [company_id |-> 1, user_id |-> 3, role |-> "sales",
          commission_percent |-> 2000],
         [company_id |-> 2, user_id |-> 4, role |-> "owner",
          commission_percent |-> 0] }
  /\ customers = {[id |-> 1, company_id |-> 1], [id |-> 2, company_id |-> 2]}
  /\ products = {}
  /\ invoices = {}
  /\ items = {}
  /\ commissions = {}
  /\ audit_logs = {}
  /\ seq = [user |-> 5, company |-> 3, customer |-> 3, product |-> 1,
            invoice |-> 1, item |-> 1, commission |-> 1]
  /\ last = Idle
  /\ sessions = [r \in Requests |-> NoSession]

\* ------------------------------------------------------------------------
\* The access gate (main.py:86-188)
\* ------------------------------------------------------------------------
\* _extract_user_id_from_request + get_authenticated_user: the token names
\* user u (0: no or malformed token); the user must exist and be active.
get_authenticated_user(u) ==
  \E x \in users : x.id = u /\ x.is_active

\* Variants of _resolve_company_id_for_request: one falls back to the
\* caller's single membership when the caller is no member of the explicit
\* company, one takes the caller's first membership when there are several.
_resolve_company_id_with_fallback(u, hdr) ==
  LET ms == {m \in memberships : m.user_id = u}
  IN IF hdr # None /\ (\E m \in ms : m.company_id = hdr) THEN hdr
     ELSE IF Cardinality(ms) = 1 THEN (CHOOSE m \in ms : TRUE).company_id
     ELSE IF hdr # None THEN hdr
     ELSE None

_resolve_company_id_first_membership(u, hdr) ==
  IF hdr # None THEN hdr
  ELSE LET ms == {m \in memberships : m.user_id = u}
       IN IF ms # {}
          THEN (CHOOSE m \in ms :
                  \A n \in ms : m.company_id <= n.company_id).company_id
          ELSE None

\* _resolve_company_id_for_request: an explicit company id is taken verbatim,
\* otherwise the company of the caller's single membership; None: rejected.
_resolve_company_id_for_request(u, hdr) ==
  IF hdr # None THEN hdr
  ELSE LET ms == {m \in memberships : m.user_id = u}
       IN IF Cardinality(ms) = 1 THEN (CHOOSE m \in ms : TRUE).company_id
          ELSE None

\* The detail of the HTTPException the gate raises for a refused request
gate_detail(u, hdr, cid) ==
  IF u = None THEN "Missing or invalid token"
  ELSE IF ~get_authenticated_user(u) THEN "Unauthorized"
  ELSE IF cid = None THEN "Company context is required"
  ELSE "User has no access to this company"

\* A variant of get_access_context that takes the resolved company without
\* looking for the caller's membership in it.
get_access_context_any_company(u, hdr) ==
  IF ~get_authenticated_user(u)
  THEN [code |-> 401, user |-> u, company_id |-> None, role |-> "-",
        detail |-> gate_detail(u, hdr, None)]
  ELSE LET cid == _resolve_company_id_for_request(u, hdr)
           ms == {m \in memberships : m.user_id = u}
       IN IF cid = None \/ ms = {}
          THEN [code |-> 403, user |-> u, company_id |-> None, role |-> "-",
                detail |-> gate_detail(u, hdr, cid)]
          ELSE [code |-> 200, user |-> u, company_id |-> cid,
                role |-> _normalize_role((CHOOSE m \in ms : TRUE).role),
                detail |-> ""]

\* A variant of get_access_context that looks for the membership in an
\* explicit company before it authenticates the caller.
get_access_context_tenant_first(u, hdr) ==
  LET cid == _resolve_company_id_for_request(u, hdr)
      cu == {m \in memberships : m.company_id = cid /\ m.user_id = u}
  IN IF hdr # None /\ cu = {}
     THEN [code |-> 403, user |-> u, company_id |-> None, role |-> "-",
           detail |-> "User has no access to this company"]
     ELSE IF ~get_authenticated_user(u)
     THEN [code |-> 401, user |-> u, company_id |-> None, role |-> "-",
           detail |-> gate_detail(u, hdr, None)]
     ELSE IF cid = None \/ cu = {}
     THEN [code |-> 403, user |-> u, company_id |-> None, role |-> "-",
           detail |-> gate_detail(u, hdr, cid)]
     ELSE [code |-> 200, user |-> u, company_id |-> cid,
           role |-> _normalize_role((CHOOSE m \in cu : TRUE).role),
           detail |-> ""]

\* get_access_context: [code, user, company_id, role, detail]; code 200 means
\* passed.  get_authenticated_user is its first dependency.
get_access_context(u, hdr) ==
  IF ~get_authenticated_user(u)
  THEN [code |-> 401, user |-> u, company_id |-> None, role |-> "-",
        detail |-> gate_detail(u, hdr, None)]
  ELSE LET cid == _resolve_company_id_for_request(u, hdr)
           cu == {m \in memberships : m.company_id = cid /\ m.user_id = u}
       IN IF cid = None \/ cu = {}
          THEN [code |-> 403, user |-> u, company_id |-> None, role |-> "-",
                detail |-> gate_detail(u, hdr, cid)]
          ELSE [code |-> 200, user |-> u, company_id |-> cid,
                role |-> _normalize_role((CHOOSE m \in cu : TRUE).role),
                detail |-> ""]

\* A variant of require_roles that takes a SALES member for an ACCOUNTANT.
require_roles_sales_as_accountant(allowed, u, hdr) ==
  LET context == get_access_context(u, hdr)
  IN IF /\ context.code = 200
        /\ context.role \notin allowed
        /\ ~(context.role = "SALES" /\ "ACCOUNTANT" \in allowed)
     THEN [context EXCEPT !.code = 403, !.detail = "Insufficient permissions"]
     ELSE context

require_roles(allowed, u, hdr) ==
  LET context == get_access_context(u, hdr)
  IN IF context.code = 200 /\ context.role \notin allowed
     THEN [context EXCEPT !.code = 403, !.detail = "Insufficient permissions"]
     ELSE context

\* A variant of require_owner that also admits the ACCOUNTANT.
require_owner_or_accountant(u, hdr) ==
  require_roles({"OWNER", "ACCOUNTANT"}, u, hdr)

require_owner(u, hdr) == require_roles({"OWNER"}, u, hdr)

require_permission(permission, u, hdr) ==
  require_roles(PERMISSION_MATRIX[permission], u, hdr)

\* The company of the single membership of user u; None without exactly one.
OnlyTenant(u) ==
  LET ms == {m \in memberships : m.user_id = u}
  IN IF Cardinality(ms) = 1 THEN (CHOOSE m \in ms : TRUE).company_id ELSE None

\* ------------------------------------------------------------------------
\* Helpers of the handlers
\* ------------------------------------------------------------------------
Response(op, u, hdr, id, code, ret) ==
  [op |-> op, user |-> u, hdr |-> hdr, id |-> id, code |-> code, ret |-> ret]

\* A request that ends with an HTTP error: nothing is committed.
Reject(op, u, hdr, id, code) ==
  /\ last' = Response(op, u, hdr, id, code, {})
  /\ UNCHANGED store

\* A read: a response and no write.
Return(op, u, hdr, id, ret) ==
  /\ last' = Response(op, u, hdr, id, 200, ret)
  /\ UNCHANGED store

\* get_db: the session is closed when the request has been answered.
get_db ==
  /\ last # Idle
  /\ UNCHANGED sessions
  /\ last' = Idle
  /\ UNCHANGED store

\* A variant of status_map.get that falls back to 'draft' whatever the
\* default passed to it.
status_map_get_draft(status, default) ==
  CASE status = "draft" -> "draft"
    [] status = "sent" -> "issued"
    [] status = "issued" -> "issued"
    [] status = "overdue" -> "issued"
    [] status = "paid" -> "paid"
    [] OTHER -> "draft"

\* status_map.get(status, default) of create_invoice and update_invoice
status_map_get(status, default) ==
  CASE status = "draft" -> "draft"
    [] status = "sent" -> "issued"
    [] status = "issued" -> "issued"
    [] status = "overdue" -> "issued"
    [] status = "paid" -> "paid"
    [] OTHER -> default

\* Column(Enum(InvoiceStatus)): the member a written value is read back as.
stored_status(value) ==
  CASE value \in {"draft", "DRAFT"} -> "DRAFT"
    [] value \in {"issued", "ISSUED"} -> "ISSUED"
    [] value \in {"paid", "PAID"} -> "PAID"
    [] OTHER -> "INVALID"

\* Decimal.quantize(Decimal('0.01'), rounding=ROUND_HALF_UP) of n / d, n >= 0
quantize_half_up(n, d) == (2 * n + d) \div (2 * d)

\* Decimal.quantize(Decimal('0.01')) of n / d, n >= 0: the default context
\* rounds half to even.
quantize_half_even(n, d) ==
  LET q == n \div d
      r == n % d
  IN IF 2 * r > d \/ (2 * r = d /\ q % 2 = 1) THEN q + 1 ELSE q

\* A variant of calculate_commission_amount that rounds with the default
\* context (half to even).
calculate_commission_amount_half_even(base_amount, percent) ==
  IF base_amount < 0 \/ percent < 0 \/ percent > 10000 THEN -1
  ELSE quantize_half_even(base_amount * percent, 10000)

\* Commission.calculate_commission_amount: -1 stands for the ValueError.
\* percent / Decimal('100') is exact for a Numeric(5,2) percent, so the
\* product is base_amount * percent in units of 1/10000.
calculate_commission_amount(base_amount, percent) ==
  IF base_amount < 0 \/ percent < 0 \/ percent > 10000 THEN -1
  ELSE quantize_half_up(base_amount * percent, 10000)

\* A variant of the listener that compares the statuses by their values and
\* has no guard on the salesperson.
create_commission_snapshot_on_paid_unattributed(target, value, old_value, in_session) ==
  IF stored_status(value) # "PAID" \/ old_value = "PAID" THEN {}
  ELSE IF ~in_session THEN {}
  ELSE LET cu == {m \in memberships : m.company_id = target.company_id
                                     /\ m.user_id = target.sold_by_user_id}
           percent == IF cu = {} THEN DefaultPercent
                      ELSE (CHOOSE m \in cu : TRUE).commission_percent
           base_amount == target.total_amount
           commission_amount == calculate_commission_amount(base_amount, percent)
       IN IF commission_amount < 0 THEN {}
          ELSE {[company_id |-> target.company_id, invoice_id |-> target.id,
                 user_id |-> target.sold_by_user_id,
                 base_amount |-> base_amount, percent |-> percent,
                 commission_amount |-> commission_amount,
                 status |-> "PENDING"]}

\* The 'set' listener of Invoice.status.  value is the value being assigned,
\* old_value the loaded one; InvoiceStatus.PAID is the member "PAID".  The
\* result is the set of Commission rows it adds to the session (no id yet).
create_commission_snapshot_on_paid(target, value, old_value, in_session) ==
  IF value # "PAID" \/ old_value = "PAID" THEN {}
  ELSE IF ~in_session \/ target.sold_by_user_id = None THEN {}
  ELSE LET cu == {m \in memberships : m.company_id = target.company_id
                                     /\ m.user_id = target.sold_by_user_id}
           percent == IF cu = {} THEN DefaultPercent
                      ELSE (CHOOSE m \in cu : TRUE).commission_percent
           base_amount == target.total_amount
           commission_amount == calculate_commission_amount(base_amount, percent)
       IN IF commission_amount < 0 THEN {}
          ELSE {[company_id |-> target.company_id, invoice_id |-> target.id,
                 user_id |-> target.sold_by_user_id,
                 base_amount |-> base_amount, percent |-> percent,
                 commission_amount |-> commission_amount,
                 status |-> "PENDING"]}

\* INSERT of session-added Commission rows: ids from the serial generator.
WithId(row, id) ==
  [id |-> id, company_id |-> row.company_id, invoice_id |-> row.invoice_id,
   user_id |-> row.user_id, base_amount |-> row.base_amount,
   percent |-> row.percent, commission_amount |-> row.commission_amount,
   status |-> row.status]

InvoiceResponse(i) == <<"invoice", i.id, i.company_id>>
CommissionResponse(c) == <<"commission", c.id, c.company_id>>
CustomerResponse(c) == <<"customer", c.id, c.company_id>>

\* ------------------------------------------------------------------------
\* Invoice handlers (main.py:1214-1382)
\* ------------------------------------------------------------------------
\* Variants of the two guards below, for checking that the properties depend
\* on them: a lock that stops nobody, a paid rule that stops every role.
locked_for_nobody(invoice, context) == FALSE

paid_delete_denied_for_all(invoice, context) == invoice.status = "PAID"

\* "if invoice.is_locked and context.role != RoleName.OWNER" of
\* update_invoice, delete_invoice and create_invoice_item
locked_for(invoice, context) ==
  invoice.is_locked /\ context.role # "OWNER"

\* "if context.role == RoleName.ACCOUNTANT and status_value == 'paid'" of
\* delete_invoice
paid_delete_denied(invoice, context) ==
  context.role = "ACCOUNTANT" /\ invoice.status = "PAID"

\* POST /api/invoices.  The constructor assigns status before the object is
\* in a session, so the listener returns without a snapshot.  The commit
\* checks the foreign keys customer_id and sold_by_user_id.
create_invoice(u, hdr, company_id, customer_id, sold_by, status, total) ==
  LET context == require_permission("invoice:create", u, hdr)
      value == status_map_get(status, "draft")
      snapshot == create_commission_snapshot_on_paid(
                    [id |-> None, company_id |-> company_id,
                     sold_by_user_id |-> sold_by, total_amount |-> total],
                    value, "NO_VALUE", FALSE)
      new_invoice == [id |-> seq.invoice, company_id |-> company_id,
                      customer_id |-> customer_id,
                      sold_by_user_id |-> sold_by,
                      created_by_user_id |-> u,
                      status |-> stored_status(value),
                      total_amount |-> total, is_locked |-> FALSE]
  IN /\ last = Idle
     /\ UNCHANGED sessions
     /\ IF context.code # 200
        THEN Reject("create_invoice", u, hdr, None, context.code)
        ELSE IF company_id # context.company_id
        THEN Reject("create_invoice", u, hdr, None, 403)
        ELSE IF \/ ~(\E c \in customers : c.id = customer_id)
                \/ (sold_by # None /\ ~(\E x \in users : x.id = sold_by))
        THEN Reject("create_invoice", u, hdr, None, 500)
        ELSE /\ seq.invoice <= MaxInvoices
             /\ invoices' = invoices \cup {new_invoice}
             /\ commissions' = commissions \cup
                   {WithId(c, seq.commission) : c \in snapshot}
             /\ seq' = [seq EXCEPT !.invoice = @ + 1]
             /\ last' = Response("create_invoice", u, hdr, new_invoice.id, 201,
                                 {InvoiceResponse(new_invoice)})
             /\ UNCHANGED <<companies, users, memberships, customers, products, items,
                            audit_logs>>

\* PUT /api/invoices/{invoice_id}.  status "" and total None: not supplied.
\* The status is assigned before total_amount; the listener runs at the
\* assignment, against the invoice as loaded.
update_invoice(u, hdr, invoice_id, status, total) ==
  LET context == require_permission("invoice:update", u, hdr)
      found == {i \in invoices : i.id = invoice_id
                                 /\ i.company_id = context.company_id}
  IN /\ last = Idle
     /\ UNCHANGED sessions
     /\ IF context.code # 200
        THEN Reject("update_invoice", u, hdr, invoice_id, context.code)
        ELSE IF found = {}
        THEN Reject("update_invoice", u, hdr, invoice_id, 404)
        ELSE LET invoice == CHOOSE i \in found : TRUE
                 value == IF status # "" THEN status_map_get(status, invoice.status)
                          ELSE invoice.status
                 snapshot == IF status # ""
                             THEN create_commission_snapshot_on_paid(
                                    invoice, value, invoice.status, TRUE)
                             ELSE {}
                 updated == [invoice EXCEPT
                               !.status = stored_status(value),
                               !.total_amount = IF total # None THEN total ELSE @]
             IN IF locked_for(invoice, context)
                THEN Reject("update_invoice", u, hdr, invoice_id, 403)
                ELSE /\ snapshot # {} => seq.commission <= MaxCommissions
                     /\ invoices' = (invoices \ {invoice}) \cup {updated}
                     /\ commissions' = commissions \cup
                           {WithId(c, seq.commission) : c \in snapshot}
                     /\ seq' = IF snapshot # {}
                               THEN [seq EXCEPT !.commission = @ + 1] ELSE seq
                     /\ last' = Response("update_invoice", u, hdr, invoice_id, 200,
                                         {InvoiceResponse(updated)})
                     /\ UNCHANGED <<companies, users, memberships, customers, products,
                                    items, audit_logs>>

\* update_invoice step by step, for requests that run concurrently, each in
\* its own session.  First step: the gate and the query that loads the
\* invoice into the session.
update_invoice_read(r, u, hdr, invoice_id, status, total) ==
  LET context == require_permission("invoice:update", u, hdr)
      found == {i \in invoices : i.id = invoice_id
                                 /\ i.company_id = context.company_id}
      session == [NoSession EXCEPT !.user = u, !.hdr = hdr, !.id = invoice_id,
                                   !.status = status, !.total = total]
  IN /\ sessions[r].pc = "none"
     /\ sessions' =
          [sessions EXCEPT ![r] =
             IF context.code # 200
             THEN [session EXCEPT !.pc = "done", !.code = context.code]
             ELSE IF found = {}
             THEN [session EXCEPT !.pc = "done", !.code = 404]
             ELSE IF locked_for(CHOOSE i \in found : TRUE, context)
             THEN [session EXCEPT !.pc = "done", !.code = 403]
             ELSE [session EXCEPT !.pc = "loaded", !.loaded = found]]
     /\ UNCHANGED <<store, last>>

\* Second step: the assignments to the loaded object.  The listener runs
\* inside the assignment of status, reads the membership, and adds the
\* snapshot to the session.
update_invoice_write(r) ==
  LET session == sessions[r]
      invoice == CHOOSE i \in session.loaded : TRUE
      value == IF session.status # ""
               THEN status_map_get(session.status, invoice.status)
               ELSE invoice.status
      snapshot == IF session.status # ""
                  THEN create_commission_snapshot_on_paid(
                         invoice, value, invoice.status, TRUE)
                  ELSE {}
  IN /\ session.pc = "loaded"
     /\ sessions' = [sessions EXCEPT ![r] =
                       [session EXCEPT !.pc = "written", !.status = value,
                                       !.pending = snapshot]]
     /\ UNCHANGED <<store, last>>

\* Third step: db.commit() flushes the UPDATE of the assigned columns and
\* the INSERT of the pending snapshot, and the request is answered.
update_invoice_commit(r) ==
  LET session == sessions[r]
      loaded == CHOOSE i \in session.loaded : TRUE
      row == {i \in invoices : i.id = session.id}
      updated == {[i EXCEPT
                     !.status = IF session.status # loaded.status
                                THEN stored_status(session.status) ELSE @,
                     !.total_amount = IF session.total # None
                                      THEN session.total ELSE @] : i \in row}
  IN /\ session.pc = "written"
     /\ session.pending # {} => seq.commission <= MaxCommissions
     /\ invoices' = (invoices \ row) \cup updated
     /\ commissions' = commissions \cup
           {WithId(c, seq.commission) : c \in session.pending}
     /\ seq' = IF session.pending # {}
               THEN [seq EXCEPT !.commission = @ + 1] ELSE seq
     /\ sessions' = [sessions EXCEPT ![r] =
                       [session EXCEPT !.pc = "done", !.code = 200]]
     /\ UNCHANGED <<companies, users, memberships, customers, products,
                    items, audit_logs, last>>

\* A variant of delete_invoice that deletes the invoice row alone.
delete_invoice_alone(u, hdr, invoice_id) ==
  LET context == require_permission("invoice:delete", u, hdr)
      found == {i \in invoices : i.id = invoice_id
                                 /\ i.company_id = context.company_id}
  IN /\ last = Idle
     /\ UNCHANGED sessions
     /\ IF context.code # 200
        THEN Reject("delete_invoice", u, hdr, invoice_id, context.code)
        ELSE IF found = {}
        THEN Reject("delete_invoice", u, hdr, invoice_id, 404)
        ELSE LET invoice == CHOOSE i \in found : TRUE
             IN IF paid_delete_denied(invoice, context)
                THEN Reject("delete_invoice", u, hdr, invoice_id, 403)
                ELSE IF locked_for(invoice, context)
                THEN Reject("delete_invoice", u, hdr, invoice_id, 403)
                ELSE /\ invoices' = invoices \ {invoice}
                     /\ last' = Response("delete_invoice", u, hdr, invoice_id, 204, {})
                     /\ UNCHANGED <<companies, users, memberships, customers, products,
                                    items, commissions, audit_logs, seq>>

\* DELETE /api/invoices/{invoice_id}: the items and the commissions of the
\* invoice go with it (cascade="all, delete-orphan").
delete_invoice(u, hdr, invoice_id) ==
  LET context == require_permission("invoice:delete", u, hdr)
      found == {i \in invoices : i.id = invoice_id
                                 /\ i.company_id = context.company_id}
  IN /\ last = Idle
     /\ UNCHANGED sessions
     /\ IF context.code # 200
        THEN Reject("delete_invoice", u, hdr, invoice_id, context.code)
        ELSE IF found = {}
        THEN Reject("delete_invoice", u, hdr, invoice_id, 404)
        ELSE LET invoice == CHOOSE i \in found : TRUE
             IN IF paid_delete_denied(invoice, context)
                THEN Reject("delete_invoice", u, hdr, invoice_id, 403)
                ELSE IF locked_for(invoice, context)
                THEN Reject("delete_invoice", u, hdr, invoice_id, 403)
                ELSE /\ invoices' = invoices \ {invoice}
                     /\ items' = {it \in items : it.invoice_id # invoice_id}
                     /\ commissions' = {c \in commissions : c.invoice_id # invoice_id}
                     /\ last' = Response("delete_invoice", u, hdr, invoice_id, 204, {})
                     /\ UNCHANGED <<companies, users, memberships, customers, products,
                                    audit_logs, seq>>

\* A variant of the two handlers that marks the invoice paid when it locks it
\* and returns it to draft when it unlocks it.
set_is_locked_with_status(op, u, hdr, invoice_id, locked) ==
  LET context == require_owner(u, hdr)
      found == {i \in invoices : i.id = invoice_id
                                 /\ i.company_id = context.company_id}
  IN /\ last = Idle
     /\ UNCHANGED sessions
     /\ IF context.code # 200
        THEN Reject(op, u, hdr, invoice_id, context.code)
        ELSE IF found = {}
        THEN Reject(op, u, hdr, invoice_id, 404)
        ELSE LET invoice == CHOOSE i \in found : TRUE
                 updated == [invoice EXCEPT !.is_locked = locked,
                                            !.status = IF locked THEN "PAID"
                                                       ELSE "DRAFT"]
             IN /\ invoices' = (invoices \ {invoice}) \cup {updated}
                /\ last' = Response(op, u, hdr, invoice_id, 200,
                                    {InvoiceResponse(updated)})
                /\ UNCHANGED <<companies, users, memberships, customers, products, items,
                               commissions, audit_logs, seq>>

\* POST /api/invoices/{invoice_id}/lock and /unlock
set_is_locked(op, u, hdr, invoice_id, locked) ==
  LET context == require_owner(u, hdr)
      found == {i \in invoices : i.id = invoice_id
                                 /\ i.company_id = context.company_id}
  IN /\ last = Idle
     /\ UNCHANGED sessions
     /\ IF context.code # 200
        THEN Reject(op, u, hdr, invoice_id, context.code)
        ELSE IF found = {}
        THEN Reject(op, u, hdr, invoice_id, 404)
        ELSE LET invoice == CHOOSE i \in found : TRUE
                 updated == [invoice EXCEPT !.is_locked = locked]
             IN /\ invoices' = (invoices \ {invoice}) \cup {updated}
                /\ last' = Response(op, u, hdr, invoice_id, 200,
                                    {InvoiceResponse(updated)})
                /\ UNCHANGED <<companies, users, memberships, customers, products, items,
                               commissions, audit_logs, seq>>

lock_invoice(u, hdr, invoice_id) ==
  set_is_locked("lock_invoice", u, hdr, invoice_id, TRUE)

unlock_invoice(u, hdr, invoice_id) ==
  set_is_locked("unlock_invoice", u, hdr, invoice_id, FALSE)

\* POST /api/invoice-items.  quantity is in hundredths, the prices in cents:
\* quantity * unit_price - discount is counted in 1/10000.  The table's
\* CHECK constraints are evaluated by the commit.
create_invoice_item(u, hdr, invoice_id, quantity, unit_price, discount, total) ==
  LET context == require_roles({"OWNER", "ACCOUNTANT"}, u, hdr)
      found == {i \in invoices : i.id = invoice_id
                                 /\ i.company_id = context.company_id}
      exact == quantity * unit_price - 100 * discount
      expected_total == quantize_half_even(exact, 100)
      new_item == [id |-> seq.item, invoice_id |-> invoice_id,
                   quantity |-> quantity, unit_price |-> unit_price,
                   discount |-> discount, total_amount |-> total]
  IN /\ last = Idle
     /\ UNCHANGED sessions
     /\ IF context.code # 200
        THEN Reject("create_invoice_item", u, hdr, invoice_id, context.code)
        ELSE IF found = {}
        THEN Reject("create_invoice_item", u, hdr, invoice_id, 404)
        ELSE IF locked_for(CHOOSE i \in found : TRUE, context)
        THEN Reject("create_invoice_item", u, hdr, invoice_id, 403)
        ELSE IF total # expected_total
        THEN Reject("create_invoice_item", u, hdr, invoice_id, 422)
        ELSE IF 100 * total # exact \/ discount < 0 \/ quantity < 0 \/ unit_price < 0
        THEN Reject("create_invoice_item", u, hdr, invoice_id, 500)
        ELSE /\ seq.item <= MaxItems
             /\ items' = items \cup {new_item}
             /\ seq' = [seq EXCEPT !.item = @ + 1]
             /\ last' = Response("create_invoice_item", u, hdr, invoice_id, 201,
                                 {<<"item", new_item.id, context.company_id>>})
             /\ UNCHANGED <<companies, users, memberships, customers, products, invoices,
                            commissions, audit_logs>>

\* create_invoice_item step by step, for a request that runs concurrently
\* with others, in its own session.  First step: the gate, the query that
\* loads the invoice, the lock check and the validation of the total; the
\* new item is added to the session.
create_invoice_item_check(r, u, hdr, invoice_id, quantity, unit_price, discount, total) ==
  LET context == require_roles({"OWNER", "ACCOUNTANT"}, u, hdr)
      found == {i \in invoices : i.id = invoice_id
                                 /\ i.company_id = context.company_id}
      exact == quantity * unit_price - 100 * discount
      expected_total == quantize_half_even(exact, 100)
      new_item == [invoice_id |-> invoice_id,
                   quantity |-> quantity, unit_price |-> unit_price,
                   discount |-> discount, total_amount |-> total]
      session == [NoSession EXCEPT !.user = u, !.hdr = hdr, !.id = invoice_id,
                                   !.total = total]
  IN /\ sessions[r].pc = "none"
     /\ sessions' =
          [sessions EXCEPT ![r] =
             IF context.code # 200
             THEN [session EXCEPT !.pc = "done", !.code = context.code]
             ELSE IF found = {}
             THEN [session EXCEPT !.pc = "done", !.code = 404]
             ELSE IF locked_for(CHOOSE i \in found : TRUE, context)
             THEN [session EXCEPT !.pc = "done", !.code = 403]
             ELSE IF total # expected_total
             THEN [session EXCEPT !.pc = "done", !.code = 422]
             ELSE [session EXCEPT !.pc = "added", !.loaded = found,
                                  !.pending = {new_item}]]
     /\ UNCHANGED <<store, last>>

\* Second step: db.commit() flushes the INSERT of the item, which the
\* foreign key refuses when the invoice row is gone.
create_invoice_item_commit(r) ==
  LET session == sessions[r]
      added == CHOOSE it \in session.pending : TRUE
      new_item == [id |-> seq.item, invoice_id |-> added.invoice_id,
                   quantity |-> added.quantity, unit_price |-> added.unit_price,
                   discount |-> added.discount,
                   total_amount |-> added.total_amount]
  IN /\ session.pc = "added"
     /\ IF \E i \in invoices : i.id = added.invoice_id
        THEN /\ seq.item <= MaxItems
             /\ items' = items \cup {new_item}
             /\ seq' = [seq EXCEPT !.item = @ + 1]
             /\ sessions' = [sessions EXCEPT ![r] =
                               [session EXCEPT !.pc = "done", !.code = 201]]
        ELSE /\ UNCHANGED <<items, seq>>
             /\ sessions' = [sessions EXCEPT ![r] =
                               [session EXCEPT !.pc = "done", !.code = 500]]
     /\ UNCHANGED <<companies, users, memberships, customers, products,
                    invoices, commissions, audit_logs, last>>

\* ------------------------------------------------------------------------
\* Commission handlers (main.py:1493-1659)
\* ------------------------------------------------------------------------
\* The CHECK constraints of the commissions table, evaluated by the commit.
commission_checks(c) ==
  /\ c.percent >= 0 /\ c.percent <= 10000
  /\ c.commission_amount >= 0
  /\ c.base_amount >= 0

\* POST /api/commissions
create_commission(u, hdr, invoice_id, user_id, percent, commission_amount) ==
  LET context == require_owner(u, hdr)
      found == {i \in invoices : i.id = invoice_id
                                 /\ i.company_id = context.company_id}
  IN /\ last = Idle
     /\ UNCHANGED sessions
     /\ IF context.code # 200
        THEN Reject("create_commission", u, hdr, None, context.code)
        ELSE IF found = {}
        THEN Reject("create_commission", u, hdr, None, 404)
        ELSE LET invoice == CHOOSE i \in found : TRUE
                 new_commission ==
                   [id |-> seq.commission, company_id |-> context.company_id,
                    invoice_id |-> invoice_id, user_id |-> user_id,
                    base_amount |-> invoice.total_amount, percent |-> percent,
                    commission_amount |-> commission_amount,
                    status |-> "PENDING"]
             IN IF \/ ~commission_checks(new_commission)
                   \/ (user_id # None /\ ~(\E x \in users : x.id = user_id))
                THEN Reject("create_commission", u, hdr, None, 500)
                ELSE /\ seq.commission <= MaxCommissions
                     /\ commissions' = commissions \cup {new_commission}
                     /\ seq' = [seq EXCEPT !.commission = @ + 1]
                     /\ last' = Response("create_commission", u, hdr,
                                         new_commission.id, 201,
                                         {CommissionResponse(new_commission)})
                     /\ UNCHANGED <<companies, users, memberships, customers, products,
                                    invoices, items, audit_logs>>

\* The common frame of the handlers that load one commission of the caller's
\* company as an owner and write it back: update, approve, mark-paid.
owner_writes_commission(op, u, hdr, commission_id, assigned) ==
  LET context == require_owner(u, hdr)
      found == {c \in commissions : c.id = commission_id
                                    /\ c.company_id = context.company_id}
  IN /\ last = Idle
     /\ UNCHANGED sessions
     /\ IF context.code # 200
        THEN Reject(op, u, hdr, commission_id, context.code)
        ELSE IF found = {}
        THEN Reject(op, u, hdr, commission_id, 404)
        ELSE LET commission == CHOOSE c \in found : TRUE
                 updated == [f \in DOMAIN commission |->
                              IF f \in DOMAIN assigned THEN assigned[f]
                              ELSE commission[f]]
             IN IF ~commission_checks(updated)
                THEN Reject(op, u, hdr, commission_id, 500)
                ELSE /\ commissions' = (commissions \ {commission}) \cup {updated}
                     /\ last' = Response(op, u, hdr, commission_id, 200,
                                         {CommissionResponse(updated)})
                     /\ UNCHANGED <<companies, users, memberships, customers, products,
                                    invoices, items, audit_logs, seq>>

\* PUT /api/commissions/{commission_id}; None: the field is not supplied.
update_commission(u, hdr, commission_id, percent, commission_amount) ==
  LET assigned ==
        [f \in {x \in {"percent"} : percent # None}
             \cup {x \in {"commission_amount"} : commission_amount # None} |->
           IF f = "percent" THEN percent ELSE commission_amount]
  IN owner_writes_commission("update_commission", u, hdr, commission_id,
                             assigned)

\* POST /api/commissions/{commission_id}/approve
approve_commission(u, hdr, commission_id) ==
  owner_writes_commission("approve_commission", u, hdr, commission_id,
                          [status |-> "APPROVED"])

\* POST /api/commissions/{commission_id}/mark-paid
mark_commission_paid(u, hdr, commission_id) ==
  owner_writes_commission("mark_commission_paid", u, hdr, commission_id,
                          [status |-> "PAID"])

\* A variant of delete_commission that looks the commission up before it
\* checks the caller's role.
delete_commission_lookup_first(u, hdr, commission_id) ==
  LET context == get_access_context(u, hdr)
      found == {c \in commissions : c.id = commission_id
                                    /\ c.company_id = context.company_id}
  IN /\ last = Idle
     /\ UNCHANGED sessions
     /\ IF context.code # 200
        THEN Reject("delete_commission", u, hdr, commission_id, context.code)
        ELSE IF found = {}
        THEN Reject("delete_commission", u, hdr, commission_id, 404)
        ELSE IF context.role # "OWNER"
        THEN Reject("delete_commission", u, hdr, commission_id, 403)
        ELSE /\ commissions' = commissions \ found
             /\ last' = Response("delete_commission", u, hdr, commission_id, 204, {})
             /\ UNCHANGED <<companies, users, memberships, customers, products, invoices,
                            items, audit_logs, seq>>

\* DELETE /api/commissions/{commission_id}
delete_commission(u, hdr, commission_id) ==
  LET context == require_owner(u, hdr)
      found == {c \in commissions : c.id = commission_id
                                    /\ c.company_id = context.company_id}
  IN /\ last = Idle
     /\ UNCHANGED sessions
     /\ IF context.code # 200
        THEN Reject("delete_commission", u, hdr, commission_id, context.code)
        ELSE IF found = {}
        THEN Reject("delete_commission", u, hdr, commission_id, 404)
        ELSE /\ commissions' = commissions \ found
             /\ last' = Response("delete_commission", u, hdr, commission_id, 204, {})
             /\ UNCHANGED <<companies, users, memberships, customers, products, invoices,
                            items, audit_logs, seq>>

\* A variant of return_existing that brings the existing records up to the
\* invoice's current total and the salesperson's current rate before it
\* returns them.
return_existing_refreshed(u, hdr, invoice_id, existing) ==
  LET refreshed(c) ==
        LET invoice == CHOOSE i \in invoices : i.id = c.invoice_id
            cu == {m \in memberships : m.company_id = c.company_id
                                       /\ m.user_id = c.user_id}
            percent == IF cu = {} THEN c.percent
                       ELSE (CHOOSE m \in cu : TRUE).commission_percent
        IN [c EXCEPT !.base_amount = invoice.total_amount,
                     !.percent = percent,
                     !.commission_amount =
                        quantize_half_even(invoice.total_amount * percent,
                                           10000)]
  IN /\ commissions' = (commissions \ existing)
                          \cup {refreshed(c) : c \in existing}
     /\ last' = Response("create_commission_snapshot", u, hdr, invoice_id,
                         201, {CommissionResponse(c) : c \in existing})
     /\ UNCHANGED <<companies, users, memberships, customers, products,
                    invoices, items, audit_logs, seq>>

\* "if existing: return existing" of create_commission_snapshot: the rows
\* found are the response, and nothing is written.
return_existing(u, hdr, invoice_id, existing) ==
  /\ last' = Response("create_commission_snapshot", u, hdr, invoice_id,
                      201, {CommissionResponse(c) : c \in existing})
  /\ UNCHANGED store

\* POST /api/invoices/{invoice_id}/create-commission-snapshot
create_commission_snapshot(u, hdr, invoice_id) ==
  LET context == require_permission("commission:create_snapshot", u, hdr)
      found == {i \in invoices : i.id = invoice_id
                                 /\ i.company_id = context.company_id}
      existing == {c \in commissions : c.invoice_id = invoice_id
                                       /\ c.company_id = context.company_id}
  IN /\ last = Idle
     /\ UNCHANGED sessions
     /\ IF context.code # 200
        THEN Reject("create_commission_snapshot", u, hdr, invoice_id, context.code)
        ELSE IF found = {}
        THEN Reject("create_commission_snapshot", u, hdr, invoice_id, 404)
        ELSE IF context.role = "SALES"
        THEN Reject("create_commission_snapshot", u, hdr, invoice_id, 403)
        ELSE IF existing # {}
        THEN return_existing(u, hdr, invoice_id, existing)
        ELSE LET invoice == CHOOSE i \in found : TRUE
                 cu == {m \in memberships :
                          /\ m.company_id = invoice.company_id
                          /\ m.user_id = invoice.sold_by_user_id}
                 percent == IF invoice.sold_by_user_id # None /\ cu # {}
                            THEN (CHOOSE m \in cu : TRUE).commission_percent
                            ELSE DefaultPercent
                 base_amount == invoice.total_amount
                 snapshot ==
                   [id |-> seq.commission, company_id |-> invoice.company_id,
                    invoice_id |-> invoice.id,
                    user_id |-> invoice.sold_by_user_id,
                    base_amount |-> base_amount, percent |-> percent,
                    commission_amount |->
                       quantize_half_even(base_amount * percent, 10000),
                    status |-> "PENDING"]
             IN IF ~commission_checks(snapshot)
                THEN Reject("create_commission_snapshot", u, hdr, invoice_id, 500)
                ELSE /\ seq.commission <= MaxCommissions
                     /\ commissions' = commissions \cup {snapshot}
                     /\ seq' = [seq EXCEPT !.commission = @ + 1]
                     /\ last' = Response("create_commission_snapshot", u, hdr,
                                         invoice_id, 201,
                                         {CommissionResponse(snapshot)})
                     /\ UNCHANGED <<companies, users, memberships, customers, products,
                                    invoices, items, audit_logs>>

\* create_commission_snapshot step by step, for requests that run
\* concurrently, each in its own session.  First step: the gate, the queries
\* that load the invoice, the existing commissions and the membership; the
\* snapshot is added to the session.
create_commission_snapshot_check(r, u, hdr, invoice_id) ==
  LET context == require_permission("commission:create_snapshot", u, hdr)
      found == {i \in invoices : i.id = invoice_id
                                 /\ i.company_id = context.company_id}
      existing == {c \in commissions : c.invoice_id = invoice_id
                                       /\ c.company_id = context.company_id}
      invoice == CHOOSE i \in found : TRUE
      cu == {m \in memberships : /\ m.company_id = invoice.company_id
                                 /\ m.user_id = invoice.sold_by_user_id}
      percent == IF invoice.sold_by_user_id # None /\ cu # {}
                 THEN (CHOOSE m \in cu : TRUE).commission_percent
                 ELSE DefaultPercent
      snapshot == [id |-> None, company_id |-> invoice.company_id,
                   invoice_id |-> invoice.id,
                   user_id |-> invoice.sold_by_user_id,
                   base_amount |-> invoice.total_amount, percent |-> percent,
                   commission_amount |->
                      quantize_half_even(invoice.total_amount * percent, 10000),
                   status |-> "PENDING"]
      session == [NoSession EXCEPT !.user = u, !.hdr = hdr, !.id = invoice_id]
  IN /\ sessions[r].pc = "none"
     /\ sessions' =
          [sessions EXCEPT ![r] =
             IF context.code # 200
             THEN [session EXCEPT !.pc = "done", !.code = context.code]
             ELSE IF found = {}
             THEN [session EXCEPT !.pc = "done", !.code = 404]
             ELSE IF context.role = "SALES"
             THEN [session EXCEPT !.pc = "done", !.code = 403]
             ELSE IF existing # {}
             THEN [session EXCEPT !.pc = "done", !.code = 201,
                                  !.loaded = existing]
             ELSE IF ~commission_checks(snapshot)
             THEN [session EXCEPT !.pc = "done", !.code = 500]
             ELSE [session EXCEPT !.pc = "snapshot", !.pending = {snapshot}]]
     /\ UNCHANGED <<store, last>>

\* Second step: db.commit() flushes the INSERT of the snapshot; the
\* commissions table has no unique constraint on invoice_id.
create_commission_snapshot_commit(r) ==
  LET session == sessions[r]
  IN /\ session.pc = "snapshot"
     /\ seq.commission <= MaxSnapshots
     /\ commissions' = commissions \cup
           {WithId(c, seq.commission) : c \in session.pending}
     /\ seq' = [seq EXCEPT !.commission = @ + 1]
     /\ sessions' = [sessions EXCEPT ![r] =
                       [session EXCEPT !.pc = "done", !.code = 201]]
     /\ UNCHANGED <<companies, users, memberships, customers, products,
                    invoices, items, audit_logs, last>>

\* ------------------------------------------------------------------------
\* Cascades of the ORM relationships and of the foreign keys (models.py)
\* ------------------------------------------------------------------------
\* Customer.invoices, Invoice.items, Invoice.commissions: cascade delete.
invoices_of_customers(cs) == {i \in invoices : i.customer_id \in cs}

\* ------------------------------------------------------------------------
\* Customer handlers (main.py:617-708)
\* ------------------------------------------------------------------------
create_customer(u, hdr, company_id) ==
  LET context == require_permission("customer:create", u, hdr)
      new_customer == [id |-> seq.customer, company_id |-> company_id]
  IN /\ last = Idle
     /\ UNCHANGED sessions
     /\ IF context.code # 200
        THEN Reject("create_customer", u, hdr, None, context.code)
        ELSE IF company_id # context.company_id
        THEN Reject("create_customer", u, hdr, None, 403)
        ELSE /\ seq.customer <= MaxCustomers
             /\ customers' = customers \cup {new_customer}
             /\ seq' = [seq EXCEPT !.customer = @ + 1]
             /\ last' = Response("create_customer", u, hdr, new_customer.id, 201,
                                 {CustomerResponse(new_customer)})
             /\ UNCHANGED <<companies, users, memberships, products, invoices,
                            items, commissions, audit_logs>>

\* The customer handlers step by step, for requests that run concurrently.
\* Each request has its own session (get_db) and its own AccessContext, the
\* value its dependency returns (get_access_context); the handler body reads
\* context.company_id from it.
\* A variant in which the company id resolved last, by whichever request,
\* is the one every handler body reads.
tenant_of_request_shared(r) ==
  LET rs == {q \in Requests : sessions[q].company_id # None}
  IN IF rs = {} THEN None
     ELSE sessions[CHOOSE q \in rs : \A p \in rs : p <= q].company_id

tenant_of_request(r) == sessions[r].company_id

\* First step of a request: the dependency resolves the AccessContext.
\* company_id is the company the payload or the query string names.
resolve_context(r, op, permission, u, hdr, company_id) ==
  LET context == require_permission(permission, u, hdr)
      session == [NoSession EXCEPT !.user = u, !.hdr = hdr, !.id = company_id]
  IN /\ sessions[r].pc = "none"
     /\ sessions' =
          [sessions EXCEPT ![r] =
             IF context.code # 200
             THEN [session EXCEPT !.pc = "done", !.code = context.code]
             ELSE [session EXCEPT !.pc = op,
                                  !.company_id = context.company_id]]
     /\ UNCHANGED <<store, last>>

\* The body of list_customers
list_customers_body(r) ==
  LET session == sessions[r]
      found == {c \in customers : c.company_id = tenant_of_request(r)}
  IN /\ session.pc = "list_customers"
     /\ sessions' =
          [sessions EXCEPT ![r] =
             IF session.id # None /\ session.id # tenant_of_request(r)
             THEN [session EXCEPT !.pc = "done", !.code = 403]
             ELSE [session EXCEPT !.pc = "done", !.code = 200,
                                  !.loaded = found]]
     /\ UNCHANGED <<store, last>>

\* The body of create_customer
create_customer_body(r) ==
  LET session == sessions[r]
      new_customer == [id |-> seq.customer, company_id |-> session.id]
  IN /\ session.pc = "create_customer"
     /\ IF session.id # tenant_of_request(r)
        THEN /\ sessions' = [sessions EXCEPT ![r] =
                               [session EXCEPT !.pc = "done", !.code = 403]]
             /\ UNCHANGED <<customers, seq>>
        ELSE /\ seq.customer <= MaxCustomers
             /\ customers' = customers \cup {new_customer}
             /\ seq' = [seq EXCEPT !.customer = @ + 1]
             /\ sessions' = [sessions EXCEPT ![r] =
                               [session EXCEPT !.pc = "done", !.code = 201,
                                               !.pending = {new_customer}]]
     /\ UNCHANGED <<companies, users, memberships, products, invoices, items,
                    commissions, audit_logs, last>>

\* get_db's finally: the session of an answered request is closed.
close_session(r) ==
  /\ sessions[r].pc = "done"
  /\ sessions' = [sessions EXCEPT ![r] = NoSession]
  /\ UNCHANGED <<store, last>>

\* PUT /api/customers/{customer_id}: only the name changes
update_customer(u, hdr, customer_id) ==
  LET context == require_permission("customer:update", u, hdr)
      found == {c \in customers : c.id = customer_id
                                  /\ c.company_id = context.company_id}
  IN /\ last = Idle
     /\ UNCHANGED sessions
     /\ IF context.code # 200
        THEN Reject("update_customer", u, hdr, customer_id, context.code)
        ELSE IF found = {}
        THEN Reject("update_customer", u, hdr, customer_id, 404)
        ELSE Return("update_customer", u, hdr, customer_id,
                    {CustomerResponse(c) : c \in found})

\* DELETE /api/customers/{customer_id}: cascades to the invoices that name
\* the customer, and to their items and commissions.
delete_customer(u, hdr, customer_id) ==
  LET context == require_permission("customer:delete", u, hdr)
      found == {c \in customers : c.id = customer_id
                                  /\ c.company_id = context.company_id}
      gone == {i.id : i \in invoices_of_customers({customer_id})}
  IN /\ last = Idle
     /\ UNCHANGED sessions
     /\ IF context.code # 200
        THEN Reject("delete_customer", u, hdr, customer_id, context.code)
        ELSE IF found = {}
        THEN Reject("delete_customer", u, hdr, customer_id, 404)
        ELSE /\ customers' = customers \ found
             /\ invoices' = {i \in invoices : i.id \notin gone}
             /\ items' = {it \in items : it.invoice_id \notin gone}
             /\ commissions' = {c \in commissions : c.invoice_id \notin gone}
             /\ last' = Response("delete_customer", u, hdr, customer_id, 204, {})
             /\ UNCHANGED <<companies, users, memberships, products,
                            audit_logs, seq>>

\* ------------------------------------------------------------------------
\* Product handlers (main.py:714-737, 838-948, 970-1021)
\* ------------------------------------------------------------------------
\* POST /api/products
create_product(u, hdr, company_id, sku) ==
  LET context == require_permission("product:create", u, hdr)
      new_product == [id |-> seq.product, company_id |-> company_id,
                      sku |-> sku, is_active |-> TRUE]
  IN /\ last = Idle
     /\ UNCHANGED sessions
     /\ IF context.code # 200
        THEN Reject("create_product", u, hdr, None, context.code)
        ELSE IF company_id # context.company_id
        THEN Reject("create_product", u, hdr, None, 403)
        ELSE /\ seq.product <= MaxProducts
             /\ products' = products \cup {new_product}
             /\ seq' = [seq EXCEPT !.product = @ + 1]
             /\ last' = Response("create_product", u, hdr, new_product.id, 201,
                                 {<<"product", new_product.id, company_id>>})
             /\ UNCHANGED <<companies, users, memberships, customers, invoices,
                            items, commissions, audit_logs>>

\* POST /api/products/import: the file holds n valid rows; every row becomes
\* a product of the caller's company, and the commit is made when n > 0.
import_products(u, hdr, sku, n) ==
  LET context == require_permission("product:import", u, hdr)
      created == {[id |-> seq.product + k, company_id |-> context.company_id,
                   sku |-> sku, is_active |-> TRUE] : k \in 0..n - 1}
  IN /\ last = Idle
     /\ UNCHANGED sessions
     /\ IF context.code # 200
        THEN Reject("import_products", u, hdr, None, context.code)
        ELSE /\ seq.product + n - 1 <= MaxProducts
             /\ products' = products \cup created
             /\ seq' = [seq EXCEPT !.product = @ + n]
             /\ last' = Response("import_products", u, hdr, None, 201, {})
             /\ UNCHANGED <<companies, users, memberships, customers, invoices,
                            items, commissions, audit_logs>>

\* PUT /api/products/{product_id}; the supplied field is is_active.
update_product(u, hdr, product_id, is_active) ==
  LET context == require_permission("product:update", u, hdr)
      found == {q \in products : q.id = product_id
                                 /\ q.company_id = context.company_id}
  IN /\ last = Idle
     /\ UNCHANGED sessions
     /\ IF context.code # 200
        THEN Reject("update_product", u, hdr, product_id, context.code)
        ELSE IF found = {}
        THEN Reject("update_product", u, hdr, product_id, 404)
        ELSE LET product == CHOOSE q \in found : TRUE
                 updated == [product EXCEPT !.is_active = is_active]
             IN /\ products' = (products \ {product}) \cup {updated}
                /\ last' = Response("update_product", u, hdr, product_id, 200,
                                    {<<"product", updated.id, updated.company_id>>})
                /\ UNCHANGED <<companies, users, memberships, customers,
                               invoices, items, commissions, audit_logs, seq>>

\* DELETE /api/products/{product_id}
delete_product(u, hdr, product_id) ==
  LET context == require_permission("product:delete", u, hdr)
      found == {q \in products : q.id = product_id
                                 /\ q.company_id = context.company_id}
  IN /\ last = Idle
     /\ UNCHANGED sessions
     /\ IF context.code # 200
        THEN Reject("delete_product", u, hdr, product_id, context.code)
        ELSE IF found = {}
        THEN Reject("delete_product", u, hdr, product_id, 404)
        ELSE /\ products' = products \ found
             /\ last' = Response("delete_product", u, hdr, product_id, 204, {})
             /\ UNCHANGED <<companies, users, memberships, customers,
                            invoices, items, commissions, audit_logs, seq>>

\* ------------------------------------------------------------------------
\* User and membership handlers (main.py:1026-1208)
\* ------------------------------------------------------------------------
\* POST /api/users: a new active user with an ACCOUNTANT membership (at the
\* column's default rate) in the caller's company.
create_user(u, hdr) ==
  LET context == require_owner(u, hdr)
  IN /\ last = Idle
     /\ UNCHANGED sessions
     /\ IF context.code # 200
        THEN Reject("create_user", u, hdr, None, context.code)
        ELSE /\ seq.user <= MaxUsers
             /\ users' = users \cup {[id |-> seq.user, is_active |-> TRUE]}
             /\ memberships' = memberships \cup
                   {[company_id |-> context.company_id, user_id |-> seq.user,
                     role |-> "accountant", commission_percent |-> DefaultPercent]}
             /\ seq' = [seq EXCEPT !.user = @ + 1]
             /\ last' = Response("create_user", u, hdr, seq.user, 201,
                                 {<<"user", seq.user, context.company_id>>})
             /\ UNCHANGED <<companies, customers, products, invoices, items,
                            commissions, audit_logs>>

\* PUT /api/users/{user_id}: email, full name and password only
update_user(u, hdr, user_id) ==
  LET context == require_owner(u, hdr)
      pair == {m \in memberships : m.user_id = user_id
                                   /\ m.company_id = context.company_id}
  IN /\ last = Idle
     /\ UNCHANGED sessions
     /\ IF context.code # 200
        THEN Reject("update_user", u, hdr, user_id, context.code)
        ELSE IF pair = {}
        THEN Reject("update_user", u, hdr, user_id, 404)
        ELSE Return("update_user", u, hdr, user_id,
                    {<<"user", user_id, context.company_id>>})

\* A variant of delete_user in which the audit logs that name the user are
\* deleted with the user.
delete_user_with_logs(u, hdr, user_id) ==
  LET context == require_owner(u, hdr)
      pair == {m \in memberships : m.user_id = user_id
                                   /\ m.company_id = context.company_id}
  IN /\ last = Idle
     /\ UNCHANGED sessions
     /\ IF context.code # 200
        THEN Reject("delete_user", u, hdr, user_id, context.code)
        ELSE IF pair = {}
        THEN Reject("delete_user", u, hdr, user_id, 404)
        ELSE /\ users' = {x \in users : x.id # user_id}
             /\ memberships' = {m \in memberships : m.user_id # user_id}
             /\ invoices' =
                  {[i EXCEPT
                      !.sold_by_user_id = IF @ = user_id THEN None ELSE @,
                      !.created_by_user_id = IF @ = user_id THEN None ELSE @]
                   : i \in invoices}
             /\ commissions' =
                  {[c EXCEPT !.user_id = IF @ = user_id THEN None ELSE @]
                   : c \in commissions}
             /\ audit_logs' = {a \in audit_logs : a.user_id # user_id}
             /\ last' = Response("delete_user", u, hdr, user_id, 204, {})
             /\ UNCHANGED <<companies, customers, products, items, seq>>

\* A variant of delete_user in which the user's commissions and the invoices
\* the user sold are deleted with the user (a delete cascade in place of
\* ON DELETE SET NULL).
delete_user_cascading(u, hdr, user_id) ==
  LET context == require_owner(u, hdr)
      pair == {m \in memberships : m.user_id = user_id
                                   /\ m.company_id = context.company_id}
      gone == {i.id : i \in {i \in invoices : i.sold_by_user_id = user_id}}
  IN /\ last = Idle
     /\ UNCHANGED sessions
     /\ IF context.code # 200
        THEN Reject("delete_user", u, hdr, user_id, context.code)
        ELSE IF pair = {}
        THEN Reject("delete_user", u, hdr, user_id, 404)
        ELSE /\ users' = {x \in users : x.id # user_id}
             /\ memberships' = {m \in memberships : m.user_id # user_id}
             /\ invoices' =
                  {[i EXCEPT
                      !.created_by_user_id = IF @ = user_id THEN None ELSE @]
                   : i \in {i \in invoices : i.id \notin gone}}
             /\ items' = {it \in items : it.invoice_id \notin gone}
             /\ commissions' = {c \in commissions : c.user_id # user_id
                                                    /\ c.invoice_id \notin gone}
             /\ audit_logs' =
                  {[a EXCEPT !.user_id = IF @ = user_id THEN None ELSE @]
                   : a \in audit_logs}
             /\ last' = Response("delete_user", u, hdr, user_id, 204, {})
             /\ UNCHANGED <<companies, customers, products, seq>>

\* DELETE /api/users/{user_id}: the user and all its memberships go
\* (User.company_users cascade); the references of invoices, commissions and
\* audit logs to the user are set to null.
delete_user(u, hdr, user_id) ==
  LET context == require_owner(u, hdr)
      pair == {m \in memberships : m.user_id = user_id
                                   /\ m.company_id = context.company_id}
  IN /\ last = Idle
     /\ UNCHANGED sessions
     /\ IF context.code # 200
        THEN Reject("delete_user", u, hdr, user_id, context.code)
        ELSE IF pair = {}
        THEN Reject("delete_user", u, hdr, user_id, 404)
        ELSE /\ users' = {x \in users : x.id # user_id}
             /\ memberships' = {m \in memberships : m.user_id # user_id}
             /\ invoices' =
                  {[i EXCEPT
                      !.sold_by_user_id = IF @ = user_id THEN None ELSE @,
                      !.created_by_user_id = IF @ = user_id THEN None ELSE @]
                   : i \in invoices}
             /\ commissions' =
                  {[c EXCEPT !.user_id = IF @ = user_id THEN None ELSE @]
                   : c \in commissions}
             /\ audit_logs' =
                  {[a EXCEPT !.user_id = IF @ = user_id THEN None ELSE @]
                   : a \in audit_logs}
             /\ last' = Response("delete_user", u, hdr, user_id, 204, {})
             /\ UNCHANGED <<companies, customers, products, items, seq>>

\* POST /api/company-users: a membership with the column's default role
\* (ACCOUNTANT); the commit checks the unique (company, user) pair, the
\* foreign key to the user and the range of the rate.
assign_user_to_company(u, hdr, company_id, user_id, commission_percent) ==
  LET context == require_owner(u, hdr)
  IN /\ last = Idle
     /\ UNCHANGED sessions
     /\ IF context.code # 200
        THEN Reject("assign_user_to_company", u, hdr, user_id, context.code)
        ELSE IF company_id # context.company_id
        THEN Reject("assign_user_to_company", u, hdr, user_id, 403)
        ELSE IF \/ \E m \in memberships : m.company_id = company_id
                                          /\ m.user_id = user_id
                \/ ~(\E x \in users : x.id = user_id)
                \/ commission_percent < 0 \/ commission_percent > 10000
        THEN Reject("assign_user_to_company", u, hdr, user_id, 500)
        ELSE /\ memberships' = memberships \cup
                   {[company_id |-> company_id, user_id |-> user_id,
                     role |-> "accountant",
                     commission_percent |-> commission_percent]}
             /\ last' = Response("assign_user_to_company", u, hdr, user_id, 201,
                                 {<<"membership", user_id, company_id>>})
             /\ UNCHANGED <<companies, users, customers, products, invoices,
                            items, commissions, audit_logs, seq>>

\* ------------------------------------------------------------------------
\* Company handlers (main.py:515-611)
\* ------------------------------------------------------------------------
\* POST /api/companies: any owner creates a company and becomes its owner.
create_company(u, hdr) ==
  LET context == require_owner(u, hdr)
  IN /\ last = Idle
     /\ UNCHANGED sessions
     /\ IF context.code # 200
        THEN Reject("create_company", u, hdr, None, context.code)
        ELSE /\ seq.company <= MaxCompanies
             /\ companies' = companies \cup {seq.company}
             /\ memberships' = memberships \cup
                   {[company_id |-> seq.company, user_id |-> u,
                     role |-> "owner", commission_percent |-> 0]}
             /\ seq' = [seq EXCEPT !.company = @ + 1]
             /\ last' = Response("create_company", u, hdr, seq.company, 201,
                                 {<<"company", seq.company, seq.company>>})
             /\ UNCHANGED <<users, customers, products, invoices, items,
                            commissions, audit_logs>>

\* DELETE /api/companies/{company_id}: cascades to the memberships, the
\* customers (and the invoices naming them), the invoices, the commissions
\* and the audit logs of the company.
delete_company(u, hdr, company_id) ==
  LET context == require_owner(u, hdr)
      cs == {c.id : c \in {c \in customers : c.company_id = company_id}}
      gone == {i.id : i \in {i \in invoices : i.company_id = company_id
                                              \/ i.customer_id \in cs}}
  IN /\ last = Idle
     /\ UNCHANGED sessions
     /\ IF context.code # 200
        THEN Reject("delete_company", u, hdr, company_id, context.code)
        ELSE IF company_id # context.company_id
        THEN Reject("delete_company", u, hdr, company_id, 403)
        ELSE IF company_id \notin companies
        THEN Reject("delete_company", u, hdr, company_id, 404)
        ELSE /\ companies' = companies \ {company_id}
             /\ memberships' = {m \in memberships : m.company_id # company_id}
             /\ customers' = {c \in customers : c.company_id # company_id}
             /\ invoices' = {i \in invoices : i.id \notin gone}
             /\ items' = {it \in items : it.invoice_id \notin gone}
             /\ commissions' = {c \in commissions : c.invoice_id \notin gone
                                                    /\ c.company_id # company_id}
             /\ audit_logs' = {a \in audit_logs : a.company_id # company_id}
             /\ products' = {p \in products : p.company_id # company_id}
             /\ last' = Response("delete_company", u, hdr, company_id, 204, {})
             /\ UNCHANGED <<users, seq>>

\* ------------------------------------------------------------------------
\* Read handlers (main.py).  A response is the set of <<kind, id, company>>
\* of the rows it carries, the company being the one the row belongs to.
\* skip and limit only drop rows from a listing and are left out.
\* ------------------------------------------------------------------------
CompanyResponse(id) == <<"company", id, id>>
ProductResponse(q) == <<"product", q.id, q.company_id>>
UserResponse(m) == <<"user", m.user_id, m.company_id>>
AuditLogResponse(a) == <<"audit_log", a.id, a.company_id>>
InvoiceItemResponse(it) ==
  <<"item", it.id,
    IF \E i \in invoices : i.id = it.invoice_id
    THEN (CHOOSE i \in invoices : i.id = it.invoice_id).company_id
    ELSE None>>

\* GET /api/companies: the companies the caller is a member of
list_companies(u, hdr) ==
  LET context == get_access_context(u, hdr)
  IN /\ last = Idle
     /\ UNCHANGED sessions
     /\ IF context.code # 200
        THEN Reject("list_companies", u, hdr, None, context.code)
        ELSE Return("list_companies", u, hdr, None,
                    {CompanyResponse(m.company_id) :
                       m \in {m \in memberships : m.user_id = u
                                                  /\ m.company_id \in companies}})

\* GET /api/companies/{company_id}
get_company(u, hdr, company_id) ==
  LET context == get_access_context(u, hdr)
  IN /\ last = Idle
     /\ UNCHANGED sessions
     /\ IF context.code # 200
        THEN Reject("get_company", u, hdr, company_id, context.code)
        ELSE IF company_id # context.company_id
        THEN Reject("get_company", u, hdr, company_id, 403)
        ELSE IF company_id \notin companies
        THEN Reject("get_company", u, hdr, company_id, 404)
        ELSE Return("get_company", u, hdr, company_id,
                    {CompanyResponse(company_id)})

\* The listings that take an optional company_id and filter by the context's
\* company: GET /api/customers, GET /api/products
list_of_company(op, permission, u, hdr, company_id, rows) ==
  LET context == require_permission(permission, u, hdr)
  IN /\ last = Idle
     /\ UNCHANGED sessions
     /\ IF context.code # 200
        THEN Reject(op, u, hdr, company_id, context.code)
        ELSE IF company_id # None /\ company_id # context.company_id
        THEN Reject(op, u, hdr, company_id, 403)
        ELSE Return(op, u, hdr, company_id,
                    {<<r[1], r[2].id, r[2].company_id>> :
                       r \in {r \in rows : r[2].company_id = context.company_id}})

list_customers(u, hdr, company_id) ==
  list_of_company("list_customers", "customer:read", u, hdr, company_id,
                  {<<"customer", c>> : c \in customers})

list_products(u, hdr, company_id) ==
  list_of_company("list_products", "product:read", u, hdr, company_id,
                  {<<"product", q>> : q \in products})

\* The lookups of one row by id within the context's company:
\* GET /api/customers/{id}, GET /api/products/{id}
get_of_company(op, permission, u, hdr, id, rows) ==
  LET context == require_permission(permission, u, hdr)
      found == {r \in rows : r[2].id = id
                             /\ r[2].company_id = context.company_id}
  IN /\ last = Idle
     /\ UNCHANGED sessions
     /\ IF context.code # 200
        THEN Reject(op, u, hdr, id, context.code)
        ELSE IF found = {}
        THEN Reject(op, u, hdr, id, 404)
        ELSE Return(op, u, hdr, id,
                    {<<r[1], r[2].id, r[2].company_id>> : r \in found})

get_customer(u, hdr, customer_id) ==
  get_of_company("get_customer", "customer:read", u, hdr, customer_id,
                 {<<"customer", c>> : c \in customers})

get_product(u, hdr, product_id) ==
  get_of_company("get_product", "product:read", u, hdr, product_id,
                 {<<"product", q>> : q \in products})

\* GET /api/products/search-suggestions: the active products of the company
\* whose name or sku matches; matching is the set of the skus that match q.
search_products(u, hdr, q, matching) ==
  LET context == require_permission("product:read", u, hdr)
  IN /\ last = Idle
     /\ UNCHANGED sessions
     /\ IF context.code # 200
        THEN Reject("search_products", u, hdr, None, context.code)
        ELSE IF q = ""
        THEN Return("search_products", u, hdr, None, {})
        ELSE Return("search_products", u, hdr, None,
                    {ProductResponse(x) :
                       x \in {x \in products : /\ x.company_id = context.company_id
                                               /\ x.is_active
                                               /\ x.sku \in matching}})

\* GET /api/products/by-code/{code}
get_product_by_code(u, hdr, code) ==
  LET context == require_permission("product:read", u, hdr)
      found == {x \in products : /\ x.sku = code
                                 /\ x.company_id = context.company_id
                                 /\ x.is_active}
  IN /\ last = Idle
     /\ UNCHANGED sessions
     /\ IF context.code # 200
        THEN Reject("get_product_by_code", u, hdr, None, context.code)
        ELSE IF found = {}
        THEN Reject("get_product_by_code", u, hdr, None, 404)
        ELSE Return("get_product_by_code", u, hdr, None,
                    {ProductResponse(CHOOSE x \in found : TRUE)})

\* GET /api/users: the users joined with their membership in the company
list_users(u, hdr) ==
  LET context == require_owner(u, hdr)
  IN /\ last = Idle
     /\ UNCHANGED sessions
     /\ IF context.code # 200
        THEN Reject("list_users", u, hdr, None, context.code)
        ELSE Return("list_users", u, hdr, None,
                    {UserResponse(m) :
                       m \in {m \in memberships :
                                m.company_id = context.company_id}})

\* GET /api/users/{user_id}
get_user(u, hdr, user_id) ==
  LET context == require_owner(u, hdr)
      pair == {m \in memberships : m.user_id = user_id
                                   /\ m.company_id = context.company_id}
  IN /\ last = Idle
     /\ UNCHANGED sessions
     /\ IF context.code # 200
        THEN Reject("get_user", u, hdr, user_id, context.code)
        ELSE IF pair = {}
        THEN Reject("get_user", u, hdr, user_id, 404)
        ELSE Return("get_user", u, hdr, user_id, {UserResponse(m) : m \in pair})

\* GET /api/invoices; None (or 0) for a filter that is not supplied
list_invoices(u, hdr, company_id, sold_by_user_id) ==
  LET context == require_permission("invoice:read", u, hdr)
      query == {i \in invoices : i.company_id = context.company_id}
      filtered ==
        IF context.role = "SALES"
        THEN {i \in query : i.sold_by_user_id = u}
        ELSE IF sold_by_user_id # None
        THEN {i \in query : i.sold_by_user_id = sold_by_user_id}
        ELSE query
  IN /\ last = Idle
     /\ UNCHANGED sessions
     /\ IF context.code # 200
        THEN Reject("list_invoices", u, hdr, company_id, context.code)
        ELSE IF company_id # None /\ company_id # context.company_id
        THEN Reject("list_invoices", u, hdr, company_id, 403)
        ELSE Return("list_invoices", u, hdr, company_id,
                    {InvoiceResponse(i) : i \in filtered})

\* A variant of read_invoice without the check of the seller for SALES.
read_invoice_unscoped(op, u, hdr, invoice_id, rows) ==
  LET context == require_permission("invoice:read", u, hdr)
      found == {i \in invoices : i.id = invoice_id
                                 /\ i.company_id = context.company_id}
  IN /\ last = Idle
     /\ UNCHANGED sessions
     /\ IF context.code # 200
        THEN Reject(op, u, hdr, invoice_id, context.code)
        ELSE IF found = {}
        THEN Reject(op, u, hdr, invoice_id, 404)
        ELSE Return(op, u, hdr, invoice_id,
                    {InvoiceResponse(i) : i \in found \cap rows}
                      \cup {InvoiceItemResponse(it) :
                              it \in {it \in items \cap rows :
                                       it.invoice_id = invoice_id}})

\* The invoice a request names, for GET /api/invoices/{invoice_id} and
\* GET /api/invoice-items: found in the context's company, and for SALES
\* only when the caller sold it.  rows is the table the response is read
\* from: the invoices, or the items (those of the invoice).
read_invoice(op, u, hdr, invoice_id, rows) ==
  LET context == require_permission("invoice:read", u, hdr)
      found == {i \in invoices : i.id = invoice_id
                                 /\ i.company_id = context.company_id}
  IN /\ last = Idle
     /\ UNCHANGED sessions
     /\ IF context.code # 200
        THEN Reject(op, u, hdr, invoice_id, context.code)
        ELSE IF found = {}
        THEN Reject(op, u, hdr, invoice_id, 404)
        ELSE IF context.role = "SALES"
                /\ (CHOOSE i \in found : TRUE).sold_by_user_id # u
        THEN Reject(op, u, hdr, invoice_id, 403)
        ELSE Return(op, u, hdr, invoice_id,
                    {InvoiceResponse(i) : i \in found \cap rows}
                      \cup {InvoiceItemResponse(it) :
                              it \in {it \in items \cap rows :
                                       it.invoice_id = invoice_id}})

get_invoice(u, hdr, invoice_id) ==
  read_invoice("get_invoice", u, hdr, invoice_id, invoices)

list_invoice_items(u, hdr, invoice_id) ==
  read_invoice("list_invoice_items", u, hdr, invoice_id, items)

\* GET /api/commissions
list_commissions(u, hdr, invoice_id, user_id) ==
  LET context == require_permission("commission:read", u, hdr)
      query == {c \in commissions : c.company_id = context.company_id}
      of_invoice == IF invoice_id # None
                    THEN {c \in query : c.invoice_id = invoice_id} ELSE query
      filtered ==
        IF context.role = "SALES"
        THEN {c \in of_invoice : c.user_id = u}
        ELSE IF user_id # None
        THEN {c \in of_invoice : c.user_id = user_id}
        ELSE of_invoice
  IN /\ last = Idle
     /\ UNCHANGED sessions
     /\ IF context.code # 200
        THEN Reject("list_commissions", u, hdr, invoice_id, context.code)
        ELSE Return("list_commissions", u, hdr, invoice_id,
                    {CommissionResponse(c) : c \in filtered})

\* GET /api/commissions/{commission_id}
get_commission(u, hdr, commission_id) ==
  LET context == require_permission("commission:read", u, hdr)
      found == {c \in commissions : c.id = commission_id
                                    /\ c.company_id = context.company_id}
  IN /\ last = Idle
     /\ UNCHANGED sessions
     /\ IF context.code # 200
        THEN Reject("get_commission", u, hdr, commission_id, context.code)
        ELSE IF found = {}
        THEN Reject("get_commission", u, hdr, commission_id, 404)
        ELSE IF context.role = "SALES"
                /\ (CHOOSE c \in found : TRUE).user_id # u
        THEN Reject("get_commission", u, hdr, commission_id, 403)
        ELSE Return("get_commission", u, hdr, commission_id,
                    {CommissionResponse(c) : c \in found})

\* GET /api/audit-logs
list_audit_logs(u, hdr, entity_id) ==
  LET context == require_permission("audit:read", u, hdr)
      query == {a \in audit_logs : a.company_id = context.company_id}
      filtered == IF entity_id # None
                  THEN {a \in query : a.entity_id = entity_id} ELSE query
  IN /\ last = Idle
     /\ UNCHANGED sessions
     /\ IF context.code # 200
        THEN Reject("list_audit_logs", u, hdr, entity_id, context.code)
        ELSE Return("list_audit_logs", u, hdr, entity_id,
                    {AuditLogResponse(a) : a \in filtered})

\* ------------------------------------------------------------------------
\* Requests: the inputs the callers send
\* ------------------------------------------------------------------------
\* <<token's user, X-Company-Id>>.  Caller 0 sends no valid token; None as
\* the header leaves the company to be inferred; the other pairs name a
\* company the caller is no member of in the initial state.
Contexts ==
  {<<u, None>> : u \in 0..MaxUsers - 1} \cup {<<1, 2>>, <<2, 2>>, <<4, 1>>}
InvoiceIds == 1..MaxInvoices
CommissionIds == 1..MaxCommissions
StatusInputs == {"draft", "sent", "paid", "bogus"}

CreateInvoice ==
  \E x \in Contexts, sold_by \in {None, 3}, status \in {"draft", "paid"} :
    create_invoice(x[1], x[2], 1, 1, sold_by, status, 100000)

UpdateInvoice ==
  \E x \in Contexts, invoice_id \in InvoiceIds,
     status \in StatusInputs \cup {""}, total \in {None, 33333} :
    update_invoice(x[1], x[2], invoice_id, status, total)

DeleteInvoice ==
  \E x \in Contexts, invoice_id \in InvoiceIds :
    delete_invoice(x[1], x[2], invoice_id)

LockInvoice ==
  \E x \in Contexts, invoice_id \in InvoiceIds :
    lock_invoice(x[1], x[2], invoice_id)

UnlockInvoice ==
  \E x \in Contexts, invoice_id \in InvoiceIds :
    unlock_invoice(x[1], x[2], invoice_id)

CreateInvoiceItem ==
  \E x \in Contexts, invoice_id \in InvoiceIds, total \in {10000, 9999} :
    create_invoice_item(x[1], x[2], invoice_id, 100, 10000, 0, total)

CreateCommission ==
  \E x \in Contexts, invoice_id \in InvoiceIds :
    create_commission(x[1], x[2], invoice_id, 3, 2000, 2000)

CreateCommissionSnapshot ==
  \E x \in Contexts, invoice_id \in InvoiceIds :
    create_commission_snapshot(x[1], x[2], invoice_id)

Next ==
  \/ CreateInvoice
  \/ UpdateInvoice
  \/ DeleteInvoice
  \/ LockInvoice
  \/ UnlockInvoice
  \/ CreateInvoiceItem
  \/ CreateCommission
  \/ CreateCommissionSnapshot
  \/ get_db

Spec == Init /\ [][Next]_vars

\* ------------------------------------------------------------------------
\* The commission lifecycle (specification SpecCommission): one invoice of
\* company 1 sold by user 3, its snapshot, the owner's writes to it, and the
\* fixture script that sets a membership's role and rate.
\* ------------------------------------------------------------------------
\* A variant of ensure_membership that also rewrites the percent and the
\* amount of the member's commissions in the company with the new rate.
ensure_membership_retroactive(company_id, user_id, role, percent) ==
  LET existing == {m \in memberships : m.company_id = company_id
                                       /\ m.user_id = user_id}
      rated(c) == IF c.company_id = company_id /\ c.user_id = user_id
                  THEN [c EXCEPT !.percent = percent,
                                 !.commission_amount =
                                    quantize_half_up(c.base_amount * percent, 10000)]
                  ELSE c
  IN /\ last = Idle
     /\ UNCHANGED sessions
     /\ company_id \in companies
     /\ \E x \in users : x.id = user_id
     /\ memberships' = (memberships \ existing) \cup
           {[company_id |-> company_id, user_id |-> user_id, role |-> role,
             commission_percent |-> percent]}
     /\ commissions' = {rated(c) : c \in commissions}
     /\ last' = Response("ensure_membership", None, None, user_id, 200, {})
     /\ UNCHANGED <<companies, users, customers, products, invoices, items,
                    audit_logs, seq>>

\* rbac_runtime_smoke_test.ensure_membership, committed by its caller: the
\* membership of user_id in company_id gets the role and the rate, and is
\* inserted when there is none.
ensure_membership(company_id, user_id, role, percent) ==
  LET existing == {m \in memberships : m.company_id = company_id
                                       /\ m.user_id = user_id}
  IN /\ last = Idle
     /\ UNCHANGED sessions
     /\ company_id \in companies
     /\ \E x \in users : x.id = user_id
     /\ memberships' = (memberships \ existing) \cup
           {[company_id |-> company_id, user_id |-> user_id, role |-> role,
             commission_percent |-> percent]}
     /\ last' = Response("ensure_membership", None, None, user_id, 200, {})
     /\ UNCHANGED <<companies, users, customers, products, invoices, items,
                    commissions, audit_logs, seq>>

CommissionContexts == {<<1, None>>, <<2, None>>, <<4, 1>>}
RateInputs == {1500, 2000}

SoldInvoice ==
  \E x \in CommissionContexts :
    create_invoice(x[1], x[2], 1, 1, 3, "draft", 100000)

RevisedInvoice ==
  \E x \in CommissionContexts, invoice_id \in InvoiceIds,
     status \in {"", "paid", "draft"}, total \in {None, 33333} :
    update_invoice(x[1], x[2], invoice_id, status, total)

SnapshotInvoice ==
  \E x \in CommissionContexts, invoice_id \in InvoiceIds :
    create_commission_snapshot(x[1], x[2], invoice_id)

UpdateCommission ==
  \E x \in CommissionContexts, commission_id \in CommissionIds,
     percent \in {None, 1000}, commission_amount \in {None, 5000} :
    update_commission(x[1], x[2], commission_id, percent, commission_amount)

ApproveCommission ==
  \E x \in CommissionContexts, commission_id \in CommissionIds :
    approve_commission(x[1], x[2], commission_id)

MarkCommissionPaid ==
  \E x \in CommissionContexts, commission_id \in CommissionIds :
    mark_commission_paid(x[1], x[2], commission_id)

DeleteCommission ==
  \E x \in CommissionContexts, commission_id \in CommissionIds :
    delete_commission(x[1], x[2], commission_id)

EnsureMembership ==
  \E percent \in RateInputs : ensure_membership(1, 3, "sales", percent)

NextCommission ==
  \/ SoldInvoice
  \/ RevisedInvoice
  \/ SnapshotInvoice
  \/ UpdateCommission
  \/ DeleteCommission
  \/ EnsureMembership
  \/ get_db

SpecCommission == Init /\ [][NextCommission]_vars

\* The status of a commission (specification SpecCommissionStatus): the
\* snapshot of an invoice and the approve and mark-paid requests.
NextCommissionStatus ==
  \/ SoldInvoice
  \/ SnapshotInvoice
  \/ ApproveCommission
  \/ MarkCommissionPaid
  \/ DeleteCommission
  \/ get_db

SpecCommissionStatus == Init /\ [][NextCommissionStatus]_vars

\* ------------------------------------------------------------------------
\* Locked and paid invoices (specification SpecLock): the owner and the
\* accountant of company 1 create, lock, edit, fill and delete invoices.
\* ------------------------------------------------------------------------
LockContexts == {<<1, None>>, <<2, None>>}

LockCreateInvoice ==
  \E x \in LockContexts, status \in {"draft", "paid"} :
    create_invoice(x[1], x[2], 1, 1, 3, status, 100000)

LockLockInvoice ==
  \E x \in LockContexts, invoice_id \in InvoiceIds :
    lock_invoice(x[1], x[2], invoice_id)

LockUpdateInvoice ==
  \E x \in LockContexts, invoice_id \in InvoiceIds :
    update_invoice(x[1], x[2], invoice_id, "sent", None)

LockDeleteInvoice ==
  \E x \in LockContexts, invoice_id \in InvoiceIds :
    delete_invoice(x[1], x[2], invoice_id)

LockCreateInvoiceItem ==
  \E x \in LockContexts, invoice_id \in InvoiceIds, total \in {10000, 9999} :
    create_invoice_item(x[1], x[2], invoice_id, 100, 10000, 0, total)

LockSnapshotInvoice ==
  \E x \in LockContexts, invoice_id \in InvoiceIds :
    create_commission_snapshot(x[1], x[2], invoice_id)

NextLock ==
  \/ LockCreateInvoice
  \/ LockLockInvoice
  \/ LockUpdateInvoice
  \/ LockDeleteInvoice
  \/ LockCreateInvoiceItem
  \/ LockSnapshotInvoice
  \/ get_db

SpecLock == Init /\ [][NextLock]_vars

\* ------------------------------------------------------------------------
\* Tenants, principals and memberships (specification SpecTenant): the
\* handlers that create and delete customers, users, memberships and
\* companies, and create_invoice with any customer id.
\* ------------------------------------------------------------------------
TenantContexts == {<<1, None>>, <<2, None>>, <<4, None>>, <<4, 1>>}
CompanyInputs == 1..MaxCompanies - 1
CustomerInputs == 1..MaxCustomers - 1
UserInputs == {2, MaxUsers}

TenantCreateCustomer ==
  \E x \in TenantContexts, company_id \in CompanyInputs :
    create_customer(x[1], x[2], company_id)

TenantDeleteCustomer ==
  \E x \in TenantContexts, customer_id \in CustomerInputs :
    delete_customer(x[1], x[2], customer_id)

TenantCreateInvoice ==
  \E x \in TenantContexts, company_id \in CompanyInputs,
     customer_id \in CustomerInputs :
    create_invoice(x[1], x[2], company_id, customer_id, 2, "draft", 100000)

TenantCreateUser ==
  \E x \in TenantContexts : create_user(x[1], x[2])

TenantUpdateUser ==
  \E x \in TenantContexts, user_id \in UserInputs :
    update_user(x[1], x[2], user_id)

TenantDeleteUser ==
  \E x \in TenantContexts, user_id \in UserInputs :
    delete_user(x[1], x[2], user_id)

TenantAssignUser ==
  \E x \in TenantContexts, company_id \in CompanyInputs, user_id \in UserInputs :
    assign_user_to_company(x[1], x[2], company_id, user_id, 1000)

TenantCreateCompany ==
  \E x \in TenantContexts : create_company(x[1], x[2])

TenantDeleteCompany ==
  \E x \in TenantContexts, company_id \in CompanyInputs :
    delete_company(x[1], x[2], company_id)

NextTenant ==
  \/ TenantCreateCustomer
  \/ TenantDeleteCustomer
  \/ TenantCreateInvoice
  \/ TenantCreateUser
  \/ TenantUpdateUser
  \/ TenantDeleteUser
  \/ TenantAssignUser
  \/ TenantCreateCompany
  \/ TenantDeleteCompany
  \/ get_db

SpecTenant == Init /\ [][NextTenant]_vars

\* ------------------------------------------------------------------------
\* Reads (specification SpecRead).  The initial state is the fixture after
\* run_tests of rbac_runtime_smoke_test has created invoices and commissions
\* in both companies: company c holds invoice c, item c, commission c,
\* product c and audit log c.
\* ------------------------------------------------------------------------
InitRead ==
  /\ companies = {1, 2}
  /\ users = {[id |-> n, is_active |-> TRUE] : n \in 1..4}
  /\ memberships =
       { [company_id |-> 1, user_id |-> 1, role |-> "owner",
          commission_percent |-> 0],
         [company_id |-> 1, user_id |-> 2, role |-> "accountant",
          commission_percent |-> 1500],
         [company_id |-> 1, user_id |-> 3, role |-> "sales",
          commission_percent |-> 2000],
         [company_id |-> 2, user_id |-> 4, role |-> "owner",
          commission_percent |-> 0] }
  /\ customers = {[id |-> c, company_id |-> c] : c \in {1, 2}}
  /\ products = {[id |-> c, company_id |-> c, sku |-> "A",
                  is_active |-> TRUE] : c \in {1, 2}}
  /\ invoices = {[id |-> c, company_id |-> c, customer_id |-> c,
                  sold_by_user_id |-> 3, created_by_user_id |-> IF c = 1 THEN 1 ELSE 4,
                  status |-> "DRAFT", total_amount |-> 100000,
                  is_locked |-> FALSE] : c \in {1, 2}}
  /\ items = {[id |-> c, invoice_id |-> c, quantity |-> 100,
               unit_price |-> 10000, discount |-> 0,
               total_amount |-> 10000] : c \in {1, 2}}
  /\ commissions = {[id |-> c, company_id |-> c, invoice_id |-> c,
                     user_id |-> 3, base_amount |-> 100000, percent |-> 2000,
                     commission_amount |-> 20000, status |-> "PENDING"]
                    : c \in {1, 2}}
  /\ audit_logs = {[id |-> c, company_id |-> c, user_id |-> 1, entity_id |-> c]
                   : c \in {1, 2}}
  /\ seq = [user |-> 5, company |-> 3, customer |-> 3, product |-> 3,
            invoice |-> 3, item |-> 3, commission |-> 3]
  /\ last = Idle
  /\ sessions = [r \in Requests |-> NoSession]

ReadContexts ==
  {<<u, None>> : u \in 0..MaxUsers - 1}
    \cup {<<1, 2>>, <<2, 2>>, <<3, 2>>, <<4, 1>>}
RowIds == 1..MaxCompanies - 1

ReadCompanies ==
  \E x \in ReadContexts :
    \/ list_companies(x[1], x[2])
    \/ \E company_id \in RowIds : get_company(x[1], x[2], company_id)

ReadCustomers ==
  \E x \in ReadContexts :
    \/ \E company_id \in RowIds \cup {None} :
         list_customers(x[1], x[2], company_id)
    \/ \E customer_id \in RowIds : get_customer(x[1], x[2], customer_id)

ReadProducts ==
  \E x \in ReadContexts :
    \/ \E company_id \in RowIds \cup {None} :
         list_products(x[1], x[2], company_id)
    \/ \E product_id \in RowIds : get_product(x[1], x[2], product_id)
    \/ \E q \in {"", "a"} :
         search_products(x[1], x[2], q, {"A"})
    \/ get_product_by_code(x[1], x[2], "A")

ReadUsers ==
  \E x \in ReadContexts :
    \/ list_users(x[1], x[2])
    \/ \E user_id \in 1..MaxUsers - 1 : get_user(x[1], x[2], user_id)

ReadInvoices ==
  \E x \in ReadContexts :
    \/ \E company_id \in RowIds \cup {None}, sold_by \in {None, 3} :
         list_invoices(x[1], x[2], company_id, sold_by)
    \/ \E invoice_id \in RowIds : get_invoice(x[1], x[2], invoice_id)
    \/ \E invoice_id \in RowIds : list_invoice_items(x[1], x[2], invoice_id)

ReadCommissions ==
  \E x \in ReadContexts :
    \/ \E invoice_id \in RowIds \cup {None}, user_id \in {None, 3} :
         list_commissions(x[1], x[2], invoice_id, user_id)
    \/ \E commission_id \in RowIds : get_commission(x[1], x[2], commission_id)

ReadAuditLogs ==
  \E x \in ReadContexts, entity_id \in RowIds \cup {None} :
    list_audit_logs(x[1], x[2], entity_id)

\* The writes that change who is a member of what while reads go on
ReadAssignUser ==
  \E x \in {<<1, None>>, <<4, None>>}, user_id \in {2, 4} :
    assign_user_to_company(x[1], x[2], OnlyTenant(x[1]), user_id, 1000)

ReadDeleteUser ==
  \E x \in {<<1, None>>, <<4, None>>} : delete_user(x[1], x[2], 2)

NextRead ==
  \/ ReadCompanies
  \/ ReadCustomers
  \/ ReadProducts
  \/ ReadUsers
  \/ ReadInvoices
  \/ ReadCommissions
  \/ ReadAuditLogs
  \/ ReadAssignUser
  \/ ReadDeleteUser
  \/ get_db

SpecRead == InitRead /\ [][NextRead]_vars

\* ------------------------------------------------------------------------
\* Concurrent update_invoice requests (specification SpecConc): an invoice of
\* company 1 sold by user 3 is created, then the requests run interleaved.
\* ------------------------------------------------------------------------
ConcContexts == {<<1, None>>, <<2, None>>}

ConcCreateInvoice ==
  \E x \in ConcContexts, status \in {"draft", "sent"} :
    create_invoice(x[1], x[2], 1, 1, 3, status, 100000)

ConcRead ==
  \E r \in Requests, x \in ConcContexts, status \in {"paid", "draft"},
     total \in {None, 33333} :
    /\ invoices # {}
    /\ update_invoice_read(r, x[1], x[2], 1, status, total)

ConcWrite == \E r \in Requests : update_invoice_write(r)

ConcCommit == \E r \in Requests : update_invoice_commit(r)

NextConc ==
  \/ ConcCreateInvoice
  \/ ConcRead
  \/ ConcWrite
  \/ ConcCommit
  \/ get_db

SpecConc == Init /\ [][NextConc]_vars

\* ------------------------------------------------------------------------
\* Properties of the invoice lifecycle (specifications Spec and SpecLock)
\* ------------------------------------------------------------------------
StatusRank(status) ==
  CASE status = "DRAFT" -> 0
    [] status = "ISSUED" -> 1
    [] status = "PAID" -> 2
    [] OTHER -> 3

\* The commissions this step has inserted for invoice id
CreatedFor(id) == {c \in commissions' \ commissions : c.invoice_id = id}

\* This step is an answered update_invoice request that was not rejected.
UpdateInvoiceDone == last'.op = "update_invoice" /\ last'.code = 200

\* C1: for an invoice with a salesperson, the update_invoice request that
\* takes it to PAID for the first time (no commission exists for it yet)
\* inserts exactly one Commission for it, and no other update_invoice request
\* on it inserts a Commission.
C1_ExactlyOneSnapshot ==
  [][UpdateInvoiceDone =>
       \A i \in invoices : \A j \in invoices' :
         (i.id = last'.id /\ j.id = i.id /\ i.sold_by_user_id # None) =>
           LET first == /\ i.status # "PAID"
                        /\ j.status = "PAID"
                        /\ ~(\E c \in commissions : c.invoice_id = i.id)
           IN Cardinality(CreatedFor(i.id)) = IF first THEN 1 ELSE 0]_vars

\* C3: no step takes the stored status of an invoice from a later value of
\* DRAFT -> ISSUED -> PAID to an earlier one.
C3_StatusMonotonic ==
  [][\A i \in invoices : \A j \in invoices' :
       j.id = i.id => StatusRank(j.status) >= StatusRank(i.status)]_vars

\* C8: the update_invoice request that takes an invoice with a salesperson
\* from a status other than PAID to PAID leaves a Commission for the invoice
\* that is PENDING, is the salesperson's and the invoice's company's, has the
\* invoice's total as base_amount, the salesperson's membership rate in the
\* company (20.00 without a membership) as percent, and
\* base_amount * percent / 100 rounded half up to cents as commission_amount.
C8_SnapshotContents ==
  [][UpdateInvoiceDone =>
       \A i \in invoices : \A j \in invoices' :
         (/\ i.id = last'.id /\ j.id = i.id /\ i.sold_by_user_id # None
          /\ i.status # "PAID" /\ j.status = "PAID") =>
           \E c \in CreatedFor(i.id) :
             LET cu == {m \in memberships : m.company_id = i.company_id
                                            /\ m.user_id = i.sold_by_user_id}
                 rate == IF cu = {} THEN 2000
                         ELSE (CHOOSE m \in cu : TRUE).commission_percent
             IN /\ c.status = "PENDING"
                /\ c.user_id = i.sold_by_user_id
                /\ c.company_id = i.company_id
                /\ c.base_amount \in {i.total_amount, j.total_amount}
                /\ c.percent = rate
                /\ c.commission_amount
                     = (2 * c.base_amount * c.percent + 10000) \div 20000]_vars


RoleOf(u, hdr) == get_access_context(u, hdr).role
TenantOf(u, hdr) == get_access_context(u, hdr).company_id

\* The invoices of the caller's tenant that a request on invoice id addresses
Target(u, hdr, id) ==
  {i \in invoices : i.id = id /\ i.company_id = TenantOf(u, hdr)}

\* C6: on a locked invoice an ACCOUNTANT's update_invoice, delete_invoice and
\* create_invoice_item are answered 403 and leave the invoices and the items
\* as they were; an OWNER's update_invoice is answered 200, an OWNER's
\* create_invoice_item is not refused, and with a consistent total it is
\* answered 201 and the item is inserted.
C6_LockEnforcement ==
  [][/\ \A i \in Target(last'.user, last'.hdr, last'.id) :
          (/\ i.is_locked
           /\ last'.op \in {"update_invoice", "delete_invoice",
                            "create_invoice_item"}) =>
            /\ RoleOf(last'.user, last'.hdr) = "ACCOUNTANT" =>
                 (last'.code = 403 /\ invoices' = invoices /\ items' = items)
            /\ (RoleOf(last'.user, last'.hdr) = "OWNER"
                /\ last'.op = "update_invoice") => last'.code = 200
            /\ (RoleOf(last'.user, last'.hdr) = "OWNER"
                /\ last'.op = "create_invoice_item") =>
                 last'.code \notin {401, 403, 404}
     /\ \A x \in LockContexts : \A id \in InvoiceIds :
        \A i \in Target(x[1], x[2], id) :
          (/\ i.is_locked
           /\ RoleOf(x[1], x[2]) = "OWNER"
           /\ create_invoice_item(x[1], x[2], i.id, 100, 10000, 0, 10000)) =>
            (last'.code = 201 /\ Cardinality(items') = Cardinality(items) + 1)
    ]_vars

\* C6 happens: an ACCOUNTANT's create_invoice_item on a locked invoice of the
\* tenant has been answered 403.
C6_Witness ==
  /\ last.op = "create_invoice_item"
  /\ last.code = 403
  /\ RoleOf(last.user, last.hdr) = "ACCOUNTANT"
  /\ \E i \in Target(last.user, last.hdr, last.id) : i.is_locked

\* C7: delete_invoice on a PAID invoice of the caller's tenant: an ACCOUNTANT
\* is answered 403 and the invoice and its commissions stay, locked or not;
\* an OWNER is answered 204 and the invoice is gone.
C7_PaidInvoiceDeletion ==
  [][last'.op = "delete_invoice" =>
       \A i \in Target(last'.user, last'.hdr, last'.id) :
         i.status = "PAID" =>
           /\ RoleOf(last'.user, last'.hdr) = "ACCOUNTANT" =>
                /\ last'.code = 403
                /\ i \in invoices'
                /\ {c \in commissions : c.invoice_id = i.id} \subseteq commissions'
           /\ RoleOf(last'.user, last'.hdr) = "OWNER" =>
                /\ last'.code = 204
                /\ ~(\E j \in invoices' : j.id = i.id)]_vars

\* C7 happens: an ACCOUNTANT's delete_invoice on an unlocked PAID invoice
\* that has a commission has been answered 403.
C7_Witness ==
  /\ last.op = "delete_invoice"
  /\ last.code = 403
  /\ RoleOf(last.user, last.hdr) = "ACCOUNTANT"
  /\ \E i \in Target(last.user, last.hdr, last.id) :
       /\ i.status = "PAID"
       /\ ~i.is_locked
       /\ \E c \in commissions : c.invoice_id = i.id

\* ------------------------------------------------------------------------
\* Properties of the commission lifecycle (specifications SpecCommission
\* and SpecCommissionStatus)
\* ------------------------------------------------------------------------
CommissionRank(status) ==
  CASE status = "PENDING" -> 0
    [] status = "APPROVED" -> 1
    [] status = "PAID" -> 2
    [] OTHER -> 3

\* C9: no step changes the base_amount of an existing commission, and a step
\* that changes its percent or its commission_amount is an update_commission
\* request answered 200 to an OWNER of the commission's company; so neither
\* a change of the membership rate nor an update_invoice alters a commission.
C9_PointInTimeSnapshot ==
  [][\A c \in commissions : \A d \in commissions' :
       d.id = c.id =>
         /\ d.base_amount = c.base_amount
         /\ (d.percent # c.percent
             \/ d.commission_amount # c.commission_amount) =>
              /\ last'.op = "update_commission"
              /\ last'.code = 200
              /\ last'.id = c.id
              /\ RoleOf(last'.user, last'.hdr) = "OWNER"
              /\ TenantOf(last'.user, last'.hdr) = c.company_id]_vars

\* C9 happens: the rate of the salesperson's membership has just been set to
\* a value other than the percent of the commission, the invoice total is no
\* longer the base_amount, and the commission still holds the values of its
\* snapshot (base 1000.00, 20.00 percent, 200.00).
C9_Witness ==
  /\ last.op = "ensure_membership"
  /\ \E c \in commissions : \E i \in invoices : \E m \in memberships :
       /\ c.invoice_id = i.id
       /\ m.company_id = c.company_id /\ m.user_id = c.user_id
       /\ m.commission_percent = 1500
       /\ i.total_amount = 33333
       /\ c.base_amount = 100000 /\ c.percent = 2000
       /\ c.commission_amount = 20000

\* C10: no step takes the status of a commission from a later value of
\* PENDING -> APPROVED -> PAID to an earlier one.
C10_CommissionStatusForward ==
  [][\A c \in commissions : \A d \in commissions' :
       d.id = c.id =>
         CommissionRank(d.status) >= CommissionRank(c.status)]_vars

\* ------------------------------------------------------------------------
\* Properties of the tenants (specification SpecTenant)
\* ------------------------------------------------------------------------
\* The rows that belong to tenant t
TenantRows(t) ==
  [customers |-> {c \in customers : c.company_id = t},
   products |-> {q \in products : q.company_id = t},
   invoices |-> {i \in invoices : i.company_id = t},
   items |-> {it \in items : \E i \in invoices : i.id = it.invoice_id
                                                  /\ i.company_id = t},
   commissions |-> {c \in commissions : c.company_id = t},
   memberships |-> {m \in memberships : m.company_id = t},
   audit_logs |-> {a \in audit_logs : a.company_id = t}]

\* C5: a request of a principal whose only membership is in tenant T1 leaves
\* the customers, products, invoices, items, commissions, memberships and
\* audit logs of every other existing tenant as they were.
C5_MutationIsolation ==
  [][\A t \in companies :
       OnlyTenant(last'.user) \notin {None, t} =>
         TenantRows(t)' = TenantRows(t)]_vars

\* ------------------------------------------------------------------------
\* Properties of the reads (specification SpecRead)
\* ------------------------------------------------------------------------
ReadOps ==
  {"list_companies", "get_company", "list_customers", "get_customer",
   "list_products", "get_product", "search_products", "get_product_by_code",
   "list_users", "get_user", "list_invoices", "get_invoice",
   "list_invoice_items", "list_commissions", "get_commission",
   "list_audit_logs"}

PaidTransitionDone(r) ==
  /\ sessions[r].pc = "done"
  /\ sessions[r].code = 200
  /\ sessions[r].status = "paid"
  /\ \A i \in sessions[r].loaded :
       i.status # "PAID" /\ i.sold_by_user_id # None

\* C2: once two update_invoice requests that set status paid on the same
\* not yet PAID invoice with a salesperson have both finished, exactly one
\* Commission exists for the invoice, whatever the order of their steps.
C2_ConcurrentPaidOnce ==
  (\A r \in Requests : PaidTransitionDone(r)) =>
    \A r \in Requests :
      Cardinality({c \in commissions : c.invoice_id = sessions[r].id}) = 1

\* C11: a step that makes an existing commission PAID finds it APPROVED: the
\* status follows PENDING -> APPROVED -> PAID without skipping, and a
\* mark_commission_paid on a PENDING commission does not make it PAID.
C11_CommissionStatusNoSkip ==
  [][\A c \in commissions : \A d \in commissions' :
       (d.id = c.id /\ d.status = "PAID" /\ c.status # "PAID") =>
         c.status = "APPROVED"]_vars

\* ------------------------------------------------------------------------
\* The roles and the commissions (specification SpecCommissionRole): the
\* owner (1), the accountant (2) and the salesperson (3) of company 1 send
\* every commission request.
\* ------------------------------------------------------------------------
RoleContexts == {<<1, None>>, <<2, None>>, <<3, None>>}

RoleSoldInvoice ==
  create_invoice(1, None, 1, 1, 3, "draft", 100000)

RoleSnapshotInvoice ==
  \E invoice_id \in InvoiceIds : create_commission_snapshot(1, None, invoice_id)

RoleCreateCommission ==
  \E x \in RoleContexts, invoice_id \in InvoiceIds :
    create_commission(x[1], x[2], invoice_id, 3, 2000, 20000)

RoleUpdateCommission ==
  \E x \in RoleContexts, commission_id \in CommissionIds :
    update_commission(x[1], x[2], commission_id, 1000, None)

RoleApproveCommission ==
  \E x \in RoleContexts, commission_id \in CommissionIds :
    approve_commission(x[1], x[2], commission_id)

RoleMarkCommissionPaid ==
  \E x \in RoleContexts, commission_id \in CommissionIds :
    mark_commission_paid(x[1], x[2], commission_id)

RoleDeleteCommission ==
  \E x \in RoleContexts, commission_id \in CommissionIds :
    delete_commission(x[1], x[2], commission_id)

NextCommissionRole ==
  \/ RoleSoldInvoice
  \/ RoleSnapshotInvoice
  \/ RoleCreateCommission
  \/ RoleUpdateCommission
  \/ RoleApproveCommission
  \/ RoleMarkCommissionPaid
  \/ RoleDeleteCommission
  \/ get_db

SpecCommissionRole == Init /\ [][NextCommissionRole]_vars

\* ------------------------------------------------------------------------
\* Properties of the roles (specification SpecCommissionRole)
\* ------------------------------------------------------------------------
CommissionWrites ==
  {"create_commission", "update_commission", "approve_commission",
   "mark_commission_paid", "delete_commission"}

\* The commission a request names, when it is one of the caller's tenant
OwnCommission(u, hdr, id) ==
  {c \in commissions : c.id = id /\ c.company_id = TenantOf(u, hdr)}

\* C12: a commission request (create, update, approve, mark-paid, delete) of
\* an ACCOUNTANT or a SALES member is answered 403 and changes nothing; the
\* same request of the OWNER of the commission's tenant succeeds: approve
\* leaves the commission APPROVED, mark-paid PAID, update with the new
\* percent, delete removes it, create adds a PENDING commission.
C12_OwnerOnlyCommission ==
  [][(last = Idle /\ last'.op \in CommissionWrites) =>
       LET u == last'.user
           hdr == last'.hdr
           role == RoleOf(u, hdr)
           own == OwnCommission(u, hdr, last'.id)
           after == {d \in commissions' : d.id = last'.id}
       IN /\ role \in {"ACCOUNTANT", "SALES"} =>
               (last'.code = 403 /\ UNCHANGED store)
          /\ (role = "OWNER" /\ own # {}) =>
               CASE last'.op = "approve_commission" ->
                      last'.code = 200 /\ \A d \in after : d.status = "APPROVED"
                 [] last'.op = "mark_commission_paid" ->
                      last'.code = 200 /\ \A d \in after : d.status = "PAID"
                 [] last'.op = "update_commission" ->
                      last'.code = 200 /\ \A d \in after : d.percent = 1000
                 [] last'.op = "delete_commission" ->
                      last'.code = 204 /\ after = {}
                 [] OTHER -> TRUE
          /\ \A invoice_id \in InvoiceIds :
               (/\ role = "OWNER"
                /\ create_commission(u, hdr, invoice_id, 3, 2000, 20000)
                /\ \E i \in invoices : i.id = invoice_id
                                        /\ i.company_id = TenantOf(u, hdr)) =>
                 /\ last'.code = 201
                 /\ \E d \in commissions' \ commissions :
                      d.invoice_id = invoice_id /\ d.status = "PENDING"]_vars

\* C12 happens: the salesperson's mark-paid of an APPROVED commission of the
\* company (approved by the owner before) has just been refused.
C12_Witness ==
  /\ last.op = "mark_commission_paid"
  /\ last.code = 403
  /\ RoleOf(last.user, last.hdr) = "SALES"
  /\ \E c \in OwnCommission(last.user, last.hdr, last.id) :
       c.status = "APPROVED"

\* ------------------------------------------------------------------------
\* Properties of the roles and the invoices (specification Spec)
\* ------------------------------------------------------------------------
\* C13: an update_invoice of an ACCOUNTANT on an invoice of the tenant that is
\* not locked is answered 200, and a supplied total_amount is the stored one.
C13_AccountantUpdatesUnlocked ==
  [][(/\ last'.op = "update_invoice"
      /\ RoleOf(last'.user, last'.hdr) = "ACCOUNTANT") =>
       \A i \in Target(last'.user, last'.hdr, last'.id) :
         ~i.is_locked =>
           /\ last'.code = 200
           /\ \A total \in {33333} :
                update_invoice(last'.user, last'.hdr, i.id, "", total) =>
                  \E j \in invoices' : j.id = i.id /\ j.total_amount = total]_vars

\* ------------------------------------------------------------------------
\* The salesperson's writes (specification SpecSales): the owner of company
\* 1 fills the store, and the salesperson (3) sends every mutating request,
\* with and without the X-Company-Id header.
\* ------------------------------------------------------------------------
SalesContexts == {<<3, None>>, <<3, 1>>}
ProductIds == 1..MaxProducts

OwnerFillsStore ==
  \/ create_invoice(1, None, 1, 1, 3, "draft", 100000)
  \/ \E invoice_id \in InvoiceIds :
       \/ lock_invoice(1, None, invoice_id)
       \/ create_commission_snapshot(1, None, invoice_id)
       \/ create_invoice_item(1, None, invoice_id, 100, 10000, 0, 10000)
  \/ create_product(1, None, 1, "A")

SalesWritesCustomer ==
  \E x \in SalesContexts :
    \/ create_customer(x[1], x[2], 1)
    \/ update_customer(x[1], x[2], 1)
    \/ delete_customer(x[1], x[2], 1)

SalesWritesProduct ==
  \E x \in SalesContexts :
    \/ create_product(x[1], x[2], 1, "B")
    \/ import_products(x[1], x[2], "B", 1)
    \/ \E product_id \in ProductIds :
         \/ update_product(x[1], x[2], product_id, FALSE)
         \/ delete_product(x[1], x[2], product_id)

SalesWritesInvoice ==
  \E x \in SalesContexts :
    \/ create_invoice(x[1], x[2], 1, 1, 3, "draft", 100000)
    \/ \E invoice_id \in InvoiceIds :
         \/ update_invoice(x[1], x[2], invoice_id, "", 77700)
         \/ delete_invoice(x[1], x[2], invoice_id)
         \/ lock_invoice(x[1], x[2], invoice_id)
         \/ unlock_invoice(x[1], x[2], invoice_id)
         \/ create_invoice_item(x[1], x[2], invoice_id, 100, 10000, 0, 10000)
         \/ create_commission_snapshot(x[1], x[2], invoice_id)

SalesWritesCommission ==
  \E x \in SalesContexts :
    \/ \E invoice_id \in InvoiceIds :
         create_commission(x[1], x[2], invoice_id, 3, 2000, 20000)
    \/ \E commission_id \in CommissionIds :
         \/ update_commission(x[1], x[2], commission_id, None, 99900)
         \/ approve_commission(x[1], x[2], commission_id)
         \/ mark_commission_paid(x[1], x[2], commission_id)
         \/ delete_commission(x[1], x[2], commission_id)

NextSales ==
  \/ OwnerFillsStore
  \/ SalesWritesCustomer
  \/ SalesWritesProduct
  \/ SalesWritesInvoice
  \/ SalesWritesCommission
  \/ get_db

SpecSales == Init /\ [][NextSales]_vars

\* The mutating requests on customers, products, invoices, invoice items and
\* commissions
Mutations ==
  {"create_customer", "update_customer", "delete_customer",
   "create_product", "import_products", "update_product", "delete_product",
   "create_invoice", "update_invoice", "delete_invoice",
   "lock_invoice", "unlock_invoice", "create_invoice_item",
   "create_commission_snapshot"} \cup CommissionWrites

\* C14: every mutating request of a SALES member (customer, product, invoice,
\* invoice item, commission; lock, unlock, snapshot, approve, mark-paid) is
\* answered 403 and leaves the store as it was.
C14_SalesNeverMutates ==
  [][(/\ last = Idle
      /\ last'.op \in Mutations
      /\ RoleOf(last'.user, last'.hdr) = "SALES") =>
       (last'.code = 403 /\ UNCHANGED store)]_vars

\* C14 happens: the salesperson's update of a locked invoice that names them
\* as the seller, with an item and a commission, has just been refused.
C14_Witness ==
  /\ last.op = "update_invoice"
  /\ last.code = 403
  /\ RoleOf(last.user, last.hdr) = "SALES"
  /\ \E i \in Target(last.user, last.hdr, last.id) :
       /\ i.sold_by_user_id = last.user
       /\ i.is_locked
       /\ \E c \in commissions : c.invoice_id = i.id
       /\ \E it \in items : it.invoice_id = i.id

\* ------------------------------------------------------------------------
\* The salesperson's reads (specification SpecSalesRead).  The store is the
\* one rbac_runtime_smoke_test.run_tests builds in company 1: an invoice
\* sold by the salesperson (3) and one sold by another member (2), each
\* with an item and a commission of its seller.  The members read; the
\* owner deletes invoices and commissions.
\* ------------------------------------------------------------------------
SalesReadIds == 1..MaxInvoices + 1

InitSalesRead ==
  /\ companies = {1, 2}
  /\ users = {[id |-> n, is_active |-> TRUE] : n \in 1..4}
  /\ memberships =
       { [company_id |-> 1, user_id |-> 1, role |-> "owner",
          commission_percent |-> 0],
         [company_id |-> 1, user_id |-> 2, role |-> "accountant",
          commission_percent |-> 1500],
         [company_id |-> 1, user_id |-> 3, role |-> "sales",
          commission_percent |-> 2000],
         [company_id |-> 2, user_id |-> 4, role |-> "owner",
          commission_percent |-> 0] }
  /\ customers = {[id |-> 1, company_id |-> 1], [id |-> 2, company_id |-> 2]}
  /\ products = {}
  /\ invoices = {[id |-> n, company_id |-> 1, customer_id |-> 1,
                  sold_by_user_id |-> IF n = 1 THEN 3 ELSE 2,
                  created_by_user_id |-> 1, status |-> "DRAFT",
                  total_amount |-> 10000 * n, is_locked |-> FALSE]
                 : n \in SalesReadIds}
  /\ items = {[id |-> n, invoice_id |-> n, quantity |-> 100,
               unit_price |-> 10000, discount |-> 0, total_amount |-> 10000]
              : n \in SalesReadIds}
  /\ commissions = {[id |-> n, company_id |-> 1, invoice_id |-> n,
                     user_id |-> IF n = 1 THEN 3 ELSE 2,
                     base_amount |-> 10000 * n, percent |-> 2000,
                     commission_amount |-> 2000 * n, status |-> "PENDING"]
                    : n \in SalesReadIds}
  /\ audit_logs = {}
  /\ seq = [user |-> 5, company |-> 3, customer |-> 3, product |-> 1,
            invoice |-> MaxInvoices + 2, item |-> MaxInvoices + 2,
            commission |-> MaxInvoices + 2]
  /\ last = Idle
  /\ sessions = [r \in Requests |-> NoSession]

SalesReadContexts == {<<1, None>>, <<2, None>>, <<3, None>>, <<3, 1>>}

SalesReadInvoices ==
  \E x \in SalesReadContexts :
    \/ \E company_id \in {None, 1}, sold_by_user_id \in {None, 2} :
         list_invoices(x[1], x[2], company_id, sold_by_user_id)
    \/ \E invoice_id \in SalesReadIds :
         \/ get_invoice(x[1], x[2], invoice_id)
         \/ list_invoice_items(x[1], x[2], invoice_id)

SalesReadCommissions ==
  \E x \in SalesReadContexts :
    \/ \E invoice_id \in {None, 2}, user_id \in {None, 2} :
         list_commissions(x[1], x[2], invoice_id, user_id)
    \/ \E commission_id \in SalesReadIds :
         get_commission(x[1], x[2], commission_id)

SalesReadOwnerDeletes ==
  \E id \in SalesReadIds :
    \/ delete_invoice(1, None, id)
    \/ delete_commission(1, None, id)

NextSalesRead ==
  \/ SalesReadInvoices
  \/ SalesReadCommissions
  \/ SalesReadOwnerDeletes
  \/ get_db

SpecSalesRead == InitSalesRead /\ [][NextSalesRead]_vars

\* The ids of the rows of one kind in a response
Returned(kind) == {r[2] : r \in {r \in last.ret : r[1] = kind}}

\* C15: for a SALES member, get_invoice and list_invoice_items on an invoice
\* of the tenant are answered 200 when the member is its sold_by_user_id and
\* 403 otherwise, get_commission likewise by the commission's user_id, and
\* list_invoices and list_commissions return only (and, with no narrowing
\* filter, all of) the rows of the tenant attributed to the member.
C15_SalesReadScope ==
  RoleOf(last.user, last.hdr) = "SALES" =>
    /\ last.op \in {"get_invoice", "list_invoice_items"} =>
         \A i \in Target(last.user, last.hdr, last.id) :
           /\ i.sold_by_user_id = last.user => last.code = 200
           /\ i.sold_by_user_id # last.user =>
                (last.code = 403 /\ last.ret = {})
    /\ last.op = "list_invoice_items" =>
         \A it \in items : it.id \in Returned("item") =>
           \E i \in invoices : /\ i.id = it.invoice_id
                               /\ i.sold_by_user_id = last.user
    /\ last.op = "get_commission" =>
         \A c \in OwnCommission(last.user, last.hdr, last.id) :
           /\ c.user_id = last.user => last.code = 200
           /\ c.user_id # last.user => (last.code = 403 /\ last.ret = {})
    /\ (last.op = "list_invoices" /\ last.code = 200) =>
         Returned("invoice") =
           {i.id : i \in {i \in invoices :
                            /\ i.company_id = TenantOf(last.user, last.hdr)
                            /\ i.sold_by_user_id = last.user}}
    /\ (last.op = "list_commissions" /\ last.code = 200) =>
         /\ \A c \in commissions : c.id \in Returned("commission") =>
              (c.user_id = last.user
               /\ c.company_id = TenantOf(last.user, last.hdr))
         /\ last.id = None =>
              \A c \in commissions :
                (c.user_id = last.user
                 /\ c.company_id = TenantOf(last.user, last.hdr)) =>
                  c.id \in Returned("commission")

\* C15 happens: the salesperson's get_invoice on the invoice of the tenant
\* that another member sold has been answered 403, while their own invoice
\* is also in the store.
C15_Witness ==
  /\ last.op = "get_invoice"
  /\ last.code = 403
  /\ RoleOf(last.user, last.hdr) = "SALES"
  /\ \E i \in Target(last.user, last.hdr, last.id) :
       i.sold_by_user_id # last.user
  /\ \E j \in invoices : /\ j.company_id = TenantOf(last.user, last.hdr)
                         /\ j.sold_by_user_id = last.user

\* ------------------------------------------------------------------------
\* The permission gate alone (specification SpecMatrix): a request to a
\* route that depends on require_permission(key), for every key of the
\* matrix, by members whose role the fixture script changes.
\* ------------------------------------------------------------------------
\* permission_helpers.has_permission
has_permission(role, permission) ==
  LET allowed_roles == IF permission \in DOMAIN PERMISSION_MATRIX
                       THEN PERMISSION_MATRIX[permission] ELSE {}
  IN role \in allowed_roles

\* The dependency that require_permission(permission) returns, run for one
\* request: it answers with the gate's error, or lets the request through.
dependency(permission, u, hdr) ==
  LET context == require_permission(permission, u, hdr)
  IN /\ last = Idle
     /\ UNCHANGED sessions
     /\ last' = Response(permission, u, hdr, None, context.code,
                         {<<"detail", context.detail>>})
     /\ UNCHANGED store

MatrixContexts ==
  {<<u, None>> : u \in 1..MaxUsers - 1} \cup {<<3, 1>>, <<3, 2>>, <<4, 1>>}

MatrixRequest ==
  \E x \in MatrixContexts, permission \in DOMAIN PERMISSION_MATRIX :
    dependency(permission, x[1], x[2])

MatrixEnsureMembership ==
  \E role \in UserRoleValues : ensure_membership(1, 3, role, 2000)

NextMatrix ==
  \/ MatrixRequest
  \/ MatrixEnsureMembership
  \/ get_db

SpecMatrix == Init /\ [][NextMatrix]_vars

\* The read permissions (permissions.py: the *_READ members of PermissionKey)
ReadPermissions ==
  {"invoice:read", "commission:read", "customer:read", "product:read",
   "audit:read"}

\* C16: in PERMISSION_MATRIX, SALES is in the role set of read permissions
\* only, and OWNER is in every role set that ACCOUNTANT is in; and a request
\* of a member of the resolved tenant passes the gate of a key (200) exactly
\* when the member's role is in the key's role set, and is answered 403
\* otherwise.
C16_RoleMatrixComplete ==
  /\ \A k \in DOMAIN PERMISSION_MATRIX :
       /\ "SALES" \in PERMISSION_MATRIX[k] => k \in ReadPermissions
       /\ "ACCOUNTANT" \in PERMISSION_MATRIX[k] => "OWNER" \in PERMISSION_MATRIX[k]
  /\ (/\ last.op \in DOMAIN PERMISSION_MATRIX
      /\ get_access_context(last.user, last.hdr).code = 200) =>
       /\ last.code \in {200, 403}
       /\ last.code = 200 <=>
            RoleOf(last.user, last.hdr) \in PERMISSION_MATRIX[last.op]
       /\ last.code = 200 <=>
            has_permission(RoleOf(last.user, last.hdr), last.op)

\* C16 happens: a SALES member has been let through the gate of a read
\* permission, and the matrix has keys that exclude SALES.
C16_Witness ==
  /\ last.op = "commission:read"
  /\ last.code = 200
  /\ last.user = 3
  /\ RoleOf(last.user, last.hdr) = "SALES"
  /\ \E k \in DOMAIN PERMISSION_MATRIX : "SALES" \notin PERMISSION_MATRIX[k]

\* ------------------------------------------------------------------------
\* The access gate (specification SpecGate).  The fixture, and a fifth user
\* whose account has been deactivated (User.is_active, models.py:171) and
\* who still holds an ACCOUNTANT membership in company 1.  The callers send
\* requests with every credential and every company id: no or a malformed
\* token (None), the token of an active, of the inactive and of a
\* nonexistent user; no company id, a company of the fixture, the next
\* company create_company makes, and a company that never exists.
\* ------------------------------------------------------------------------
InitGate ==
  /\ companies = {1, 2}
  /\ users = {[id |-> n, is_active |-> (n # MaxUsers)] : n \in 1..MaxUsers}
  /\ memberships =
       { [company_id |-> 1, user_id |-> 1, role |-> "owner",
          commission_percent |-> 0],
         [company_id |-> 1, user_id |-> 2, role |-> "accountant",
          commission_percent |-> 1500],
         [company_id |-> 1, user_id |-> 3, role |-> "sales",
          commission_percent |-> 2000],
         [company_id |-> 2, user_id |-> 4, role |-> "owner",
          commission_percent |-> 0],
         [company_id |-> 1, user_id |-> MaxUsers, role |-> "accountant",
          commission_percent |-> 2000] }
  /\ customers = {[id |-> 1, company_id |-> 1], [id |-> 2, company_id |-> 2]}
  /\ products = {}
  /\ invoices = {}
  /\ items = {}
  /\ commissions = {}
  /\ audit_logs = {}
  /\ seq = [user |-> MaxUsers + 1, company |-> 3, customer |-> 3,
            product |-> 1, invoice |-> 1, item |-> 1, commission |-> 1]
  /\ last = Idle
  /\ sessions = [r \in Requests |-> NoSession]

GateUsers == {None, 1, 2, 4, MaxUsers, MaxUsers + 1}
GateCompanies == {None, 1, 2, MaxCompanies, MaxCompanies + 1}

GateListCompanies ==
  \E u \in GateUsers, hdr \in GateCompanies : list_companies(u, hdr)

GateCreateCustomer ==
  \E u \in GateUsers, hdr \in GateCompanies, company_id \in {1, 2} :
    create_customer(u, hdr, company_id)

GateCreateCompany ==
  \E u \in GateUsers, hdr \in GateCompanies : create_company(u, hdr)

GateDeleteCompany ==
  \E u \in GateUsers, hdr \in GateCompanies, company_id \in {2, MaxCompanies} :
    delete_company(u, hdr, company_id)

GateDependency ==
  \E u \in GateUsers, hdr \in GateCompanies,
     permission \in {"invoice:update", "customer:read"} :
    dependency(permission, u, hdr)

NextGate ==
  \/ GateListCompanies
  \/ GateCreateCustomer
  \/ GateCreateCompany
  \/ GateDeleteCompany
  \/ GateDependency
  \/ get_db

SpecGate == InitGate /\ [][NextGate]_vars

\* ------------------------------------------------------------------------
\* Properties of the access gate (specification SpecGate)
\* ------------------------------------------------------------------------
GateOps ==
  {"list_companies", "create_customer", "create_company", "delete_company"}
    \cup DOMAIN PERMISSION_MATRIX

MembershipsOf(u) == {m \in memberships : m.user_id = u}

\* The role a member holds in company t
RoleIn(u, t) ==
  _normalize_role((CHOOSE m \in MembershipsOf(u) : m.company_id = t).role)

\* What the step of a request that has passed into tenant t as user u must
\* look like: the gate's own routes answer by the role held in t, and a
\* customer is created in t and nowhere else.
HandledIn(u, hdr, t) ==
  /\ last'.op = "list_companies" => last'.code = 200
  /\ last'.op \in DOMAIN PERMISSION_MATRIX =>
       /\ last'.code = 200 <=> RoleIn(u, t) \in PERMISSION_MATRIX[last'.op]
       /\ last'.code # 200 => last'.code = 403
  /\ (last'.op = "create_company" /\ RoleIn(u, t) = "OWNER") =>
       last'.code = 201
  /\ last'.op = "create_customer" =>
       /\ last'.code = 201 =>
            /\ RoleIn(u, t) \in {"OWNER", "ACCOUNTANT"}
            /\ \A c \in customers' \ customers : c.company_id = t
            /\ customers' # customers
       /\ \A company_id \in {1, 2} :
            (/\ create_customer(u, hdr, company_id)
             /\ RoleIn(u, t) \in {"OWNER", "ACCOUNTANT"}) =>
              (last'.code = 201 <=> company_id = t)

\* C17: a request of an authenticated caller that names a company explicitly
\* is handled in exactly that company when the caller holds a membership in
\* it, and is otherwise answered 403 with the store unchanged - whether the
\* company exists or not, and also when the caller has a single membership
\* elsewhere.
C17_ExplicitTenant ==
  [][(/\ last = Idle
      /\ last'.op \in GateOps
      /\ last'.hdr # None
      /\ get_authenticated_user(last'.user)) =>
       LET u == last'.user
           hdr == last'.hdr
       IN IF \E m \in MembershipsOf(u) : m.company_id = hdr
          THEN HandledIn(u, hdr, hdr)
          ELSE last'.code = 403 /\ UNCHANGED store]_vars

\* C17 happens: a caller whose single membership is in another company has
\* named a company that does not exist, and the create_customer was refused.
C17_Witness ==
  /\ last.op = "create_customer"
  /\ last.code = 403
  /\ get_authenticated_user(last.user)
  /\ last.hdr # None
  /\ last.hdr \notin companies
  /\ Cardinality(MembershipsOf(last.user)) = 1

\* C18: a request of an authenticated caller that names no company is
\* handled in tenant T exactly when the caller holds one membership and it
\* is in T; with no membership or with several it is answered 403 and the
\* store is unchanged.
C18_InferredTenant ==
  [][(/\ last = Idle
      /\ last'.op \in GateOps
      /\ last'.hdr = None
      /\ get_authenticated_user(last'.user)) =>
       LET u == last'.user
       IN IF Cardinality(MembershipsOf(u)) = 1
          THEN HandledIn(u, None,
                         (CHOOSE m \in MembershipsOf(u) : TRUE).company_id)
          ELSE last'.code = 403 /\ UNCHANGED store]_vars

\* C18 happens: an owner who has made a second company with create_company
\* holds two memberships, and their request without a company id has been
\* refused.
C18_Witness ==
  /\ last.op = "create_customer"
  /\ last.code = 403
  /\ last.hdr = None
  /\ get_authenticated_user(last.user)
  /\ Cardinality(MembershipsOf(last.user)) = 2
  /\ \E m \in MembershipsOf(last.user) : m.company_id > 2

\* C19: a request without a valid token, or with the token of a nonexistent
\* or an inactive user, is answered 401 and changes nothing, whatever the
\* company id and the memberships; and the gate's three refusals differ:
\* 401, 403 "User has no access to this company" for an authenticated
\* caller without a membership in the resolved company, 403 "Insufficient
\* permissions" for a member whose role lacks the permission.
C19_AuthenticationFirst ==
  [][(last = Idle /\ last'.op \in GateOps) =>
       LET u == last'.user
           hdr == last'.hdr
           cid == IF hdr # None THEN hdr
                  ELSE IF Cardinality(MembershipsOf(u)) = 1
                  THEN (CHOOSE m \in MembershipsOf(u) : TRUE).company_id
                  ELSE None
           member == \E m \in MembershipsOf(u) : m.company_id = cid
           detail == {r[2] : r \in last'.ret}
       IN /\ ~get_authenticated_user(u) =>
               (last'.code = 401 /\ UNCHANGED store)
          /\ get_authenticated_user(u) => last'.code # 401
          /\ last'.op \in DOMAIN PERMISSION_MATRIX =>
               /\ ~get_authenticated_user(u) =>
                    detail \subseteq {"Unauthorized", "Missing or invalid token"}
               /\ (get_authenticated_user(u) /\ cid # None /\ ~member) =>
                    /\ last'.code = 403
                    /\ detail = {"User has no access to this company"}
               /\ (/\ get_authenticated_user(u) /\ member
                   /\ RoleIn(u, cid) \notin PERMISSION_MATRIX[last'.op]) =>
                    /\ last'.code = 403
                    /\ detail = {"Insufficient permissions"}]_vars

\* C19 happens: the inactive user, who holds a membership in the company the
\* request names, has been answered 401.
C19_Witness ==
  /\ last.op = "create_customer"
  /\ last.code = 401
  /\ \E x \in users : x.id = last.user /\ ~x.is_active
  /\ \E m \in MembershipsOf(last.user) : m.company_id = last.hdr

\* ------------------------------------------------------------------------
\* Line items (specification SpecItem): the owner creates an invoice of
\* company 1, and the owner and the accountant post items to it.  Quantities
\* are in hundredths, prices and totals in cents: 0.50 x 0.01 and
\* 2.50 x 0.01 lie on a half-cent tie, 7 x 49.99 - 17.43 is 332.50; a
\* quantity of -1.00 is negative, and 1.00 x 0.01 - 17.43 is -17.42.
\* ------------------------------------------------------------------------
ItemContexts == {<<1, None>>, <<2, None>>}
QuantityInputs == {-100, 50, 100, 250, 700}
UnitPriceInputs == {1, 4999, 10000}
DiscountInputs == {0, 1743}
TotalInputs == {-1742, -1, 0, 1, 2, 3, 7, 4999, 5000, 10000, 33249, 33250,
                33251}

ItemCreateInvoice ==
  \E status \in {"draft", "paid"} :
    create_invoice(1, None, 1, 1, 3, status, 100000)

ItemLockInvoice ==
  \E invoice_id \in InvoiceIds : lock_invoice(1, None, invoice_id)

ItemCreateInvoiceItem ==
  \E x \in ItemContexts, invoice_id \in InvoiceIds,
     quantity \in QuantityInputs, unit_price \in UnitPriceInputs,
     discount \in DiscountInputs, total \in TotalInputs :
    create_invoice_item(x[1], x[2], invoice_id, quantity, unit_price,
                        discount, total)

NextItem ==
  \/ ItemCreateInvoice
  \/ ItemLockInvoice
  \/ ItemCreateInvoiceItem
  \/ get_db

SpecItem == Init /\ [][NextItem]_vars

\* C20: for quantity, unit_price, discount >= 0 with a total >= 0, a
\* create_invoice_item of an OWNER or ACCOUNTANT on an unlocked invoice of
\* the tenant is answered 201 exactly when the supplied total_amount is
\* quantity * unit_price - discount rounded half up to the cent.
C20_LineItemTotal ==
  [][\A x \in ItemContexts : \A invoice_id \in InvoiceIds :
     \A quantity \in QuantityInputs : \A unit_price \in UnitPriceInputs :
     \A discount \in DiscountInputs : \A total \in TotalInputs :
       (/\ create_invoice_item(x[1], x[2], invoice_id, quantity, unit_price,
                               discount, total)
        /\ quantity * unit_price - 100 * discount >= 0
        /\ \E i \in Target(x[1], x[2], invoice_id) : ~i.is_locked) =>
         (last'.code = 201 <=>
            total = quantize_half_up(quantity * unit_price - 100 * discount,
                                     100))]_vars

\* C21: every stored invoice item has a quantity, a unit price, a discount
\* and a total_amount that are not negative, and its total_amount is
\* quantity * unit_price - discount to the cent.
C21_LineItemInvariant ==
  \A it \in items :
    /\ it.quantity >= 0
    /\ it.unit_price >= 0
    /\ it.discount >= 0
    /\ it.total_amount >= 0
    /\ 100 * it.total_amount - 50
         <= it.quantity * it.unit_price - 100 * it.discount
    /\ it.quantity * it.unit_price - 100 * it.discount
         <= 100 * it.total_amount + 50

\* ------------------------------------------------------------------------
\* The commission amount (specification SpecCalc):
\* Commission.calculate_commission_amount is called with a base amount in
\* cents and a percent in hundredths, as deploy_and_test.py calls it.  The
\* call is recorded in last: ret holds <<base_amount, percent, result>>,
\* the result -1 and the code 500 stand for the ValueError.
\* 0.10 at 5.00, 0.30 at 5.00 and 0.50 at 15.00 lie on a half-cent tie.
\* ------------------------------------------------------------------------
BaseAmountInputs ==
  {-1, 0, 1, 10, 30, 50, 150, 12345, 33333, 50000, 99999, 100000}
PercentInputs == {-1, 0, 1, 500, 1250, 1500, 2000, 3333, 5000, 10000, 10001}

CalculateCommissionAmount ==
  \E base_amount \in BaseAmountInputs, percent \in PercentInputs :
    LET commission == calculate_commission_amount(base_amount, percent)
    IN /\ last = Idle
       /\ UNCHANGED sessions
       /\ last' = Response("calculate_commission_amount", None, None, None,
                           IF commission = -1 THEN 500 ELSE 200,
                           {<<base_amount, percent, commission>>})
       /\ UNCHANGED store

NextCalc ==
  \/ CalculateCommissionAmount
  \/ get_db

SpecCalc == Init /\ [][NextCalc]_vars

\* C22: calculate_commission_amount(base_amount, percent) raises for a
\* negative base_amount or a percent outside [0, 100]; otherwise it returns
\* base_amount * percent / 100 rounded half up to the cent: the cent value
\* a with a - 0.5 <= base_amount * percent / 100 < a + 0.5.  1000.00 at
\* 15.00 gives 150.00, 333.33 at 20.00 gives 66.67, 500.00 at 12.50 gives
\* 62.50, and percent 0 gives 0.00.
C22_CalculateCommissionAmount ==
  last.op = "calculate_commission_amount" =>
    \A r \in last.ret :
      LET base_amount == r[1]
          percent == r[2]
          commission == r[3]
      IN IF base_amount < 0 \/ percent < 0 \/ percent > 10000
         THEN commission = -1 /\ last.code = 500
         ELSE /\ last.code = 200
              /\ 10000 * commission - 5000 <= base_amount * percent
              /\ base_amount * percent < 10000 * commission + 5000
              /\ (base_amount = 100000 /\ percent = 1500) => commission = 15000
              /\ (base_amount = 33333 /\ percent = 2000) => commission = 6667
              /\ (base_amount = 50000 /\ percent = 1250) => commission = 6250
              /\ percent = 0 => commission = 0

\* C22 witness: the function has returned for a half-cent tie whose lower
\* neighbour is even (0.10 at 5.00 is 0.005).
C22_Witness ==
  /\ last.op = "calculate_commission_amount"
  /\ last.code = 200
  /\ \E r \in last.ret :
       /\ (r[1] * r[2]) % 10000 = 5000
       /\ ((r[1] * r[2]) \div 10000) % 2 = 0

\* C23: every stored commission has a percent in [0, 100] and a
\* commission_amount that is base_amount * percent / 100 to the cent.
C23_CommissionAmountInvariant ==
  \A c \in commissions :
    /\ c.percent >= 0
    /\ c.percent <= 10000
    /\ 10000 * c.commission_amount - 5000 <= c.base_amount * c.percent
    /\ c.base_amount * c.percent <= 10000 * c.commission_amount + 5000

\* C24: a create_commission_snapshot request that is accepted for an invoice
\* that already has commissions writes nothing and returns exactly those
\* commissions; accepted for an invoice without commissions it leaves the
\* invoice with exactly one commission, the one it returns, so that a second
\* call returns the record of the first.
C24_SnapshotIdempotent ==
  [][(last'.op = "create_commission_snapshot" /\ last'.code = 201) =>
       LET before == {c \in commissions : c.invoice_id = last'.id}
           after == {c \in commissions' : c.invoice_id = last'.id}
       IN /\ last'.ret = {CommissionResponse(c) : c \in after}
          /\ IF before # {}
             THEN UNCHANGED store
             ELSE Cardinality(after) = 1]_vars

\* C24 witness: the snapshot has been requested again for an invoice sold
\* by user 3 after the rate of user 3 had changed, and the request has
\* returned the commission with the rate of the first request.
C24_Witness ==
  /\ last.op = "create_commission_snapshot"
  /\ last.code = 201
  /\ \E c \in commissions : \E m \in memberships :
       /\ c.invoice_id = last.id
       /\ c.user_id = 3
       /\ m.user_id = 3 /\ m.company_id = c.company_id
       /\ m.commission_percent # c.percent
       /\ CommissionResponse(c) \in last.ret

\* ------------------------------------------------------------------------
\* The manual snapshot (specification SpecSnapshot): the owner creates an
\* invoice of company 1, with or without a salesperson, the fixture script
\* sets the rate of the salesperson's membership, and the members of the
\* company request the snapshot and mark the invoice issued or paid.
\* 100.30 at 15.00 is 15.045, a half-cent tie.
\* ------------------------------------------------------------------------
SnapshotContexts == {<<1, None>>, <<2, None>>, <<3, None>>}
SnapshotTotals == {10030, 100000}
SnapshotRates == {1250, 2000}

SnapshotCreateInvoice ==
  \E sold_by \in {None, 2, 3, 4}, total \in SnapshotTotals :
    create_invoice(1, None, 1, 1, sold_by, "draft", total)

SnapshotEnsureMembership ==
  \E percent \in SnapshotRates : ensure_membership(1, 3, "sales", percent)

SnapshotCreateCommissionSnapshot ==
  \E x \in SnapshotContexts, invoice_id \in InvoiceIds :
    create_commission_snapshot(x[1], x[2], invoice_id)

SnapshotPayInvoice ==
  \E x \in SnapshotContexts, invoice_id \in InvoiceIds,
     status \in {"issued", "paid"} :
    update_invoice(x[1], x[2], invoice_id, status, None)

NextSnapshot ==
  \/ SnapshotCreateInvoice
  \/ SnapshotEnsureMembership
  \/ SnapshotPayInvoice
  \/ SnapshotCreateCommissionSnapshot
  \/ get_db

SpecSnapshot == Init /\ [][NextSnapshot]_vars

\* C25: a create_commission_snapshot request on an invoice of the caller's
\* company that has no commission is refused for a SALES member and writes
\* nothing; for an OWNER or an ACCOUNTANT it is accepted and adds exactly one
\* commission, which is PENDING, has the invoice's current total as
\* base_amount, the current rate of the salesperson's membership (20.00
\* without one) as percent, and base_amount * percent / 100 rounded half up
\* to the cent as commission_amount.
C25_ManualSnapshotContents ==
  [][\A i \in Target(last'.user, last'.hdr, last'.id) :
       (/\ last'.op = "create_commission_snapshot"
        /\ ~(\E c \in commissions : c.invoice_id = i.id)) =>
         IF RoleOf(last'.user, last'.hdr) = "SALES"
         THEN last'.code = 403 /\ UNCHANGED store
         ELSE LET cu == {m \in memberships : m.company_id = i.company_id
                                            /\ m.user_id = i.sold_by_user_id}
                  rate == IF cu = {} THEN 2000
                          ELSE (CHOOSE m \in cu : TRUE).commission_percent
              IN /\ last'.code = 201
                 /\ Cardinality(commissions' \ commissions) = 1
                 /\ \A c \in commissions' \ commissions :
                      /\ c.invoice_id = i.id
                      /\ c.status = "PENDING"
                      /\ c.base_amount = i.total_amount
                      /\ c.percent = rate
                      /\ 10000 * c.commission_amount - 5000
                           <= c.base_amount * c.percent
                      /\ c.base_amount * c.percent
                           < 10000 * c.commission_amount + 5000]_vars

\* ------------------------------------------------------------------------
\* Status strings (specification SpecStatus): the members of company 1 and
\* the owner of company 2 create and update invoices of company 1 with
\* status strings inside and outside the status_map; every update request
\* carries a status.
\* ------------------------------------------------------------------------
StatusContexts == {<<1, None>>, <<2, None>>, <<3, None>>, <<4, 1>>}
StatusTable == {"draft", "sent", "issued", "overdue", "paid"}
CreateStatusInputs == {"draft", "issued", "paid", "bogus"}
UpdateStatusInputs == {"sent", "overdue", "bogus", "PAID", "void"}

StatusCreateInvoice ==
  \E x \in StatusContexts, sold_by \in {None, 3}, status \in CreateStatusInputs :
    create_invoice(x[1], x[2], 1, 1, sold_by, status, 100000)

StatusUpdateInvoice ==
  \E x \in StatusContexts, invoice_id \in InvoiceIds,
     status \in UpdateStatusInputs, total \in {None, 33333} :
    update_invoice(x[1], x[2], invoice_id, status, total)

NextStatus ==
  \/ StatusCreateInvoice
  \/ StatusUpdateInvoice
  \/ get_db

SpecStatus == Init /\ [][NextStatus]_vars

\* C27: an accepted update_invoice whose status string is outside the
\* status_map leaves the stored status of the invoice as it was and adds no
\* commission; with 'sent' or 'overdue' the stored status becomes ISSUED;
\* and every stored status is DRAFT, ISSUED or PAID.
C27_StatusNormalization ==
  [][/\ \A j \in invoices' : j.status \in InvoiceStatus
     /\ \A x \in StatusContexts : \A invoice_id \in InvoiceIds :
        \A status \in UpdateStatusInputs : \A total \in {None, 33333} :
          (/\ update_invoice(x[1], x[2], invoice_id, status, total)
           /\ last'.code = 200) =>
            \A i \in invoices : \A j \in invoices' :
              (i.id = invoice_id /\ j.id = invoice_id) =>
                /\ status \notin StatusTable =>
                     (j.status = i.status /\ commissions' = commissions)
                /\ status \in {"sent", "overdue"} => j.status = "ISSUED"]_vars

\* C27 witness: an update_invoice that carried a status string has been
\* accepted and the invoice is PAID afterwards: the string was outside the
\* status_map, since no update request of SpecStatus carries 'paid'.
C27_Witness ==
  /\ last.op = "update_invoice"
  /\ last.code = 200
  /\ \E i \in invoices : i.id = last.id /\ i.status = "PAID"

\* C28: an update_invoice request that takes an invoice without a
\* salesperson (sold_by_user_id null) to PAID leaves the set of commissions
\* as it was.
C28_NoSalespersonNoSnapshot ==
  [][last'.op = "update_invoice" =>
       \A i \in invoices : \A j \in invoices' :
         (/\ i.id = last'.id /\ j.id = i.id
          /\ i.sold_by_user_id = None
          /\ i.status # "PAID" /\ j.status = "PAID") =>
           commissions' = commissions]_vars

\* C28 witness: an update_invoice has been accepted for an invoice without a
\* salesperson, which is now PAID (the invoices of SpecSnapshot are created
\* as drafts).
C28_Witness ==
  /\ last.op = "update_invoice"
  /\ last.code = 200
  /\ \E i \in invoices :
       i.id = last.id /\ i.sold_by_user_id = None /\ i.status = "PAID"

\* ------------------------------------------------------------------------
\* Deleting a user (specification SpecDeleteUser): the owner and the
\* accountant of company 1 create invoices sold by members of the company
\* and take their snapshots, and the owners delete users.
\* ------------------------------------------------------------------------
DeleteUserContexts == {<<1, None>>, <<2, None>>, <<4, None>>}

DeleteUserCreateInvoice ==
  \E x \in DeleteUserContexts, sold_by \in {None, 2, 3} :
    create_invoice(x[1], x[2], 1, 1, sold_by, "paid", 100000)

DeleteUserSnapshotInvoice ==
  \E x \in DeleteUserContexts, invoice_id \in InvoiceIds :
    create_commission_snapshot(x[1], x[2], invoice_id)

DeleteUserDeleteUser ==
  \E x \in DeleteUserContexts, user_id \in 1..MaxUsers :
    delete_user(x[1], x[2], user_id)

NextDeleteUser ==
  \/ DeleteUserCreateInvoice
  \/ DeleteUserSnapshotInvoice
  \/ DeleteUserDeleteUser
  \/ get_db

SpecDeleteUser == Init /\ [][NextDeleteUser]_vars

\* The row r with its references to user d set to null
WithoutUser(r, d) ==
  [f \in DOMAIN r |->
     IF f \in {"sold_by_user_id", "created_by_user_id", "user_id"} /\ r[f] = d
     THEN None ELSE r[f]]

\* C29: an accepted delete_user removes the user and the user's memberships
\* and nothing else: every invoice and every commission is still there with
\* the same fields, except that its references to the deleted user are null,
\* and the companies, customers, products and items are as they were.
C29_DeleteUserKeepsHistory ==
  [][(last'.op = "delete_user" /\ last'.code = 204) =>
       /\ users' = {x \in users : x.id # last'.id}
       /\ memberships' = {m \in memberships : m.user_id # last'.id}
       /\ invoices' = {WithoutUser(i, last'.id) : i \in invoices}
       /\ commissions' = {WithoutUser(c, last'.id) : c \in commissions}
       /\ {i.id : i \in invoices'} = {i.id : i \in invoices}
       /\ {c.id : c \in commissions'} = {c.id : c \in commissions}
       /\ UNCHANGED <<companies, customers, products, items>>]_vars

\* C29 witness: a user has been deleted who had created and sold an invoice
\* and held its commission at the accountant's rate: the invoice and the
\* commission are there, their references are null.
C29_Witness ==
  /\ last.op = "delete_user"
  /\ last.code = 204
  /\ \E i \in invoices : \E c \in commissions :
       /\ i.created_by_user_id = None
       /\ i.sold_by_user_id = None
       /\ c.invoice_id = i.id
       /\ c.user_id = None
       /\ c.percent = 1500

\* ------------------------------------------------------------------------
\* Cascades (specification SpecCascade).  The initial state is the fixture
\* with one audit log in each company, as the sample data of models.py
\* writes one.  Members of both companies create invoices (with a customer
\* of either company), items and snapshots, and delete invoices, customers
\* and companies.
\* ------------------------------------------------------------------------
InitCascade ==
  /\ companies = {1, 2}
  /\ users = {[id |-> n, is_active |-> TRUE] : n \in 1..4}
  /\ memberships =
       { [company_id |-> 1, user_id |-> 1, role |-> "owner",
          commission_percent |-> 0],
         [company_id |-> 1, user_id |-> 2, role |-> "accountant",
          commission_percent |-> 1500],
         [company_id |-> 1, user_id |-> 3, role |-> "sales",
          commission_percent |-> 2000],
         [company_id |-> 2, user_id |-> 4, role |-> "owner",
          commission_percent |-> 0] }
  /\ customers = {[id |-> 1, company_id |-> 1], [id |-> 2, company_id |-> 2]}
  /\ products = {}
  /\ invoices = {}
  /\ items = {}
  /\ commissions = {}
  /\ audit_logs = {[id |-> c, company_id |-> c, user_id |-> 1, entity_id |-> c]
                   : c \in {1, 2}}
  /\ seq = [user |-> 5, company |-> 3, customer |-> 3, product |-> 1,
            invoice |-> 1, item |-> 1, commission |-> 1]
  /\ last = Idle
  /\ sessions = [r \in Requests |-> NoSession]

CascadeContexts == {<<1, None>>, <<2, None>>, <<4, None>>, <<4, 1>>}

CascadeCreateInvoice ==
  \E x \in CascadeContexts, company_id \in {1, 2}, customer_id \in {1, 2} :
    create_invoice(x[1], x[2], company_id, customer_id, 3, "draft", 100000)

CascadeCreateInvoiceItem ==
  \E x \in CascadeContexts, invoice_id \in InvoiceIds :
    create_invoice_item(x[1], x[2], invoice_id, 100, 10000, 0, 10000)

CascadeSnapshotInvoice ==
  \E x \in CascadeContexts, invoice_id \in InvoiceIds :
    create_commission_snapshot(x[1], x[2], invoice_id)

CascadeDeleteInvoice ==
  \E x \in CascadeContexts, invoice_id \in InvoiceIds :
    delete_invoice(x[1], x[2], invoice_id)

CascadeDeleteCustomer ==
  \E x \in CascadeContexts, customer_id \in {1, 2} :
    delete_customer(x[1], x[2], customer_id)

CascadeDeleteCompany ==
  \E x \in CascadeContexts, company_id \in {1, 2} :
    delete_company(x[1], x[2], company_id)

NextCascade ==
  \/ CascadeCreateInvoice
  \/ CascadeCreateInvoiceItem
  \/ CascadeSnapshotInvoice
  \/ CascadeDeleteInvoice
  \/ CascadeDeleteCustomer
  \/ CascadeDeleteCompany
  \/ get_db

SpecCascade == InitCascade /\ [][NextCascade]_vars

\* No row refers to an invoice or to a company that is not in the store.
NoOrphans(cs, ms, cu, inv, its, com, logs) ==
  /\ \A it \in its : \E i \in inv : i.id = it.invoice_id
  /\ \A c \in com : (\E i \in inv : i.id = c.invoice_id) /\ c.company_id \in cs
  /\ \A m \in ms : m.company_id \in cs
  /\ \A c \in cu : c.company_id \in cs
  /\ \A i \in inv : i.company_id \in cs
  /\ \A a \in logs : a.company_id \in cs

\* C30: after every step every item and every commission refers to an
\* invoice in the store and every membership, customer, invoice, commission
\* and audit log to a company in the store; an accepted delete_invoice
\* removes the invoice; and delete_company is accepted only from an OWNER of
\* the company it names, and removes the company.
C30_NoOrphans ==
  [][/\ NoOrphans(companies', memberships', customers', invoices', items',
                  commissions', audit_logs')
     /\ (last'.op = "delete_invoice" /\ last'.code = 204) =>
          ~(\E i \in invoices' : i.id = last'.id)
     /\ (last'.op = "delete_company" /\ last'.code = 204) =>
          /\ RoleOf(last'.user, last'.hdr) = "OWNER"
          /\ TenantOf(last'.user, last'.hdr) = last'.id
          /\ last'.id \notin companies']_vars

\* C30 witness: a company has been deleted after an invoice, an item and a
\* commission had been created, and no invoice, item, commission or audit
\* log of the company is left.
C30_Witness ==
  /\ last.op = "delete_company"
  /\ last.code = 204
  /\ seq.invoice > 1 /\ seq.item > 1 /\ seq.commission > 1
  /\ invoices = {} /\ items = {} /\ commissions = {}
  /\ ~(\E a \in audit_logs : a.company_id = last.id)

\* C31: every accepted create_invoice, update_invoice, lock_invoice,
\* unlock_invoice and delete_invoice adds an audit log in the caller's
\* company that names the invoice as its entity and the caller as its user.
C31_AuditRecorded ==
  [][(/\ last'.op \in {"create_invoice", "update_invoice", "lock_invoice",
                       "unlock_invoice", "delete_invoice"}
      /\ last'.code \in {200, 201, 204}) =>
       \E a \in audit_logs' \ audit_logs :
         /\ a.entity_id = last'.id
         /\ a.user_id = last'.user
         /\ a.company_id = TenantOf(last'.user, last'.hdr)]_vars

\* ------------------------------------------------------------------------
\* The audit log (specification SpecAudit): from the fixture with one audit
\* log in each company, members of both companies create, update and delete
\* invoices, delete customers, users and companies, and list the audit logs.
\* ------------------------------------------------------------------------
AuditContexts ==
  {<<1, None>>, <<2, None>>, <<3, None>>, <<4, None>>, <<4, 1>>}

AuditUpdateInvoice ==
  \E x \in AuditContexts, invoice_id \in InvoiceIds :
    update_invoice(x[1], x[2], invoice_id, "paid", 33333)

AuditDeleteUser ==
  \E x \in AuditContexts, user_id \in {1, 3} :
    delete_user(x[1], x[2], user_id)

AuditListAuditLogs ==
  \E x \in AuditContexts, entity_id \in {None, 1} :
    list_audit_logs(x[1], x[2], entity_id)

NextAudit ==
  \/ CascadeCreateInvoice
  \/ CascadeDeleteInvoice
  \/ CascadeDeleteCustomer
  \/ CascadeDeleteCompany
  \/ AuditUpdateInvoice
  \/ AuditDeleteUser
  \/ AuditListAuditLogs
  \/ get_db

SpecAudit == InitCascade /\ [][NextAudit]_vars

\* C32: no step removes an audit log whose company stays in the store, or
\* changes its company or its entity; and list_audit_logs is answered 200
\* for an OWNER or an ACCOUNTANT of the company and refused, without any
\* row, for everyone else, SALES members included.
C32_AuditAppendOnly ==
  [][/\ \A a \in audit_logs :
          a.company_id \in companies' =>
            \E b \in audit_logs' :
              /\ b.id = a.id
              /\ b.company_id = a.company_id
              /\ b.entity_id = a.entity_id
     /\ last'.op = "list_audit_logs" =>
          IF RoleOf(last'.user, last'.hdr) \in {"OWNER", "ACCOUNTANT"}
          THEN last'.code = 200
          ELSE last'.code \in {401, 403} /\ last'.ret = {}]_vars

\* C32 witness: the user an audit log named has been deleted; the log is
\* still there, without its user.
C32_Witness ==
  /\ last.op = "delete_user"
  /\ last.code = 204
  /\ \E a \in audit_logs : a.user_id = None /\ a.company_id \in companies

\* C33: a member of a company who asks, in that company's context, for a
\* customer, product, invoice or commission by an id that belongs to another
\* company is answered 403; for an id that is in no company, 404; and no
\* response holds a row of another company.
C33_CrossTenantForbidden ==
  LET rows == CASE last.op = "get_customer" -> customers
                [] last.op = "get_product" -> products
                [] last.op = "get_invoice" -> invoices
                [] last.op = "get_commission" -> commissions
                [] OTHER -> {}
      tenant == TenantOf(last.user, last.hdr)
  IN (/\ last.op \in {"get_customer", "get_product", "get_invoice",
                      "get_commission"}
      /\ tenant # None) =>
       /\ (/\ \E r \in rows : r.id = last.id /\ r.company_id # tenant
           /\ ~(\E r \in rows : r.id = last.id /\ r.company_id = tenant)) =>
            last.code = 403
       /\ ~(\E r \in rows : r.id = last.id) => last.code = 404
       /\ \A r \in last.ret : r[3] = tenant


\* ------------------------------------------------------------------------
\* Locking and unlocking (specification SpecLocking): the owner, the
\* accountant and the salesperson of company 1 lock and unlock invoices of
\* every status, with and without items and commissions.
\* ------------------------------------------------------------------------
LockingContexts == {<<1, None>>, <<2, None>>, <<3, None>>}

LockingLockInvoice ==
  \E x \in LockingContexts, invoice_id \in InvoiceIds :
    lock_invoice(x[1], x[2], invoice_id)

LockingUnlockInvoice ==
  \E x \in LockingContexts, invoice_id \in InvoiceIds :
    unlock_invoice(x[1], x[2], invoice_id)

NextLocking ==
  \/ LockCreateInvoice
  \/ LockUpdateInvoice
  \/ LockCreateInvoiceItem
  \/ LockSnapshotInvoice
  \/ LockingLockInvoice
  \/ LockingUnlockInvoice
  \/ get_db

SpecLocking == Init /\ [][NextLocking]_vars

\* C34: lock_invoice and unlock_invoice by an OWNER answer 200, set is_locked
\* of the addressed invoice to true / false and leave its status, its total,
\* every other invoice, the items and the commissions as they were, whatever
\* the status; by an ACCOUNTANT or a SALES member they are answered 403 and
\* leave invoices, items and commissions as they were.
C34_LockingOwnerOnly ==
  [][last'.op \in {"lock_invoice", "unlock_invoice"} =>
       LET role == RoleOf(last'.user, last'.hdr)
           found == Target(last'.user, last'.hdr, last'.id)
       IN /\ (role = "OWNER" /\ found # {}) =>
               /\ last'.code = 200
               /\ invoices' = (invoices \ found) \cup
                    {[i EXCEPT !.is_locked = (last'.op = "lock_invoice")] :
                       i \in found}
               /\ items' = items
               /\ commissions' = commissions
          /\ role \in {"ACCOUNTANT", "SALES"} =>
               /\ last'.code = 403
               /\ invoices' = invoices
               /\ items' = items
               /\ commissions' = commissions]_vars

\* An OWNER has locked a paid invoice that has an item and a commission.
C34_Witness ==
  /\ last.op = "lock_invoice"
  /\ last.code = 200
  /\ RoleOf(last.user, last.hdr) = "OWNER"
  /\ \E i \in invoices :
       /\ i.id = last.id
       /\ i.is_locked
       /\ i.status = "PAID"
       /\ \E it \in items : it.invoice_id = i.id
       /\ \E c \in commissions : c.invoice_id = i.id


\* ------------------------------------------------------------------------
\* A lock that races with a mutation (specification SpecLockRace): the
\* create_invoice_item requests of the owner and the accountant of company 1
\* run step by step while lock_invoice requests commit between their steps.
\* ------------------------------------------------------------------------
RaceItemCheck ==
  \E r \in Requests, x \in ConcContexts, total \in {10000, 9999} :
    create_invoice_item_check(r, x[1], x[2], 1, 100, 10000, 0, total)

RaceItemCommit == \E r \in Requests : create_invoice_item_commit(r)

NextLockRace ==
  \/ ConcCreateInvoice
  \/ RaceItemCheck
  \/ RaceItemCommit
  \/ LockLockInvoice
  \/ get_db

SpecLockRace == Init /\ [][NextLockRace]_vars

\* C35: no mutation of a member who is not an OWNER is committed on an
\* invoice whose lock has already been committed, whatever the order of the
\* steps of the two requests: a create_invoice_item of a non-OWNER does not
\* insert its item when the stored invoice is locked.
C35_LockUnderInterleaving ==
  [][\A r \in Requests :
       (/\ sessions[r].pc = "added"
        /\ sessions'[r].pc = "done"
        /\ sessions'[r].code = 201
        /\ RoleOf(sessions[r].user, sessions[r].hdr) # "OWNER") =>
         \A i \in invoices : i.id = sessions[r].id => ~i.is_locked]_vars


\* ------------------------------------------------------------------------
\* Concurrent snapshots (specification SpecSnapshotRace): an invoice of
\* company 1 sold by user 3 is created; the owner and the accountant send
\* create_commission_snapshot requests that run step by step, and the owner
\* marks the invoice paid.
\* ------------------------------------------------------------------------
RaceSnapshotCheck ==
  \E r \in Requests, x \in ConcContexts :
    create_commission_snapshot_check(r, x[1], x[2], 1)

RaceSnapshotCommit == \E r \in Requests : create_commission_snapshot_commit(r)

RacePayInvoice ==
  \E total \in {None, 33333} : update_invoice(1, None, 1, "paid", total)

NextSnapshotRace ==
  \/ ConcCreateInvoice
  \/ RaceSnapshotCheck
  \/ RaceSnapshotCommit
  \/ RacePayInvoice
  \/ get_db

SpecSnapshotRace == Init /\ [][NextSnapshotRace]_vars

\* C36: an invoice never has more than one Commission: an update_invoice to
\* paid on an invoice that already has a Commission adds none, and two
\* concurrent create_commission_snapshot requests on an invoice without
\* commissions leave exactly one.
C36_AtMostOneSnapshot ==
  \A i \in invoices :
    Cardinality({c \in commissions : c.invoice_id = i.id}) <= 1


\* C37: an update_invoice request that takes an invoice with a salesperson
\* and no commission to PAID and changes its total_amount in the same request
\* creates a Commission whose base_amount is the total stored after the
\* request and whose commission_amount is computed from that base.
C37_SnapshotBaseIsStoredTotal ==
  [][UpdateInvoiceDone =>
       \A i \in invoices : \A j \in invoices' :
         (/\ i.id = last'.id
          /\ j.id = i.id
          /\ i.sold_by_user_id # None
          /\ i.status # "PAID"
          /\ j.status = "PAID"
          /\ j.total_amount # i.total_amount
          /\ ~(\E c \in commissions : c.invoice_id = i.id)) =>
           \E c \in CreatedFor(i.id) :
             /\ c.base_amount = j.total_amount
             /\ c.commission_amount =
                  calculate_commission_amount(c.base_amount, c.percent)]_vars


\* C38: in every state the customer of every invoice is a customer of the
\* invoice's company, and every commission has the company_id of its invoice.
C38_TenantConsistentReferences ==
  /\ \A i \in invoices : \A c \in customers :
       c.id = i.customer_id => c.company_id = i.company_id
  /\ \A c \in commissions : \A i \in invoices :
       i.id = c.invoice_id => i.company_id = c.company_id


\* ------------------------------------------------------------------------
\* Denied requests (specification SpecDenied): the owner, the accountant and
\* the salesperson of company 1 send the guarded requests on an invoice and
\* a commission, before they exist, while they exist and after they are
\* deleted.
\* ------------------------------------------------------------------------
DeniedUpdateInvoice ==
  \E x \in RoleContexts, invoice_id \in InvoiceIds :
    update_invoice(x[1], x[2], invoice_id, "sent", None)

DeniedDeleteInvoice ==
  \E x \in RoleContexts, invoice_id \in InvoiceIds :
    delete_invoice(x[1], x[2], invoice_id)

DeniedCreateInvoiceItem ==
  \E x \in RoleContexts, invoice_id \in InvoiceIds :
    create_invoice_item(x[1], x[2], invoice_id, 100, 10000, 0, 10000)

DeniedSnapshotInvoice ==
  \E x \in RoleContexts, invoice_id \in InvoiceIds :
    create_commission_snapshot(x[1], x[2], invoice_id)

NextDenied ==
  \/ RoleSoldInvoice
  \/ DeniedUpdateInvoice
  \/ DeniedDeleteInvoice
  \/ DeniedCreateInvoiceItem
  \/ DeniedSnapshotInvoice
  \/ LockingLockInvoice
  \/ LockingUnlockInvoice
  \/ RoleApproveCommission
  \/ RoleMarkCommissionPaid
  \/ RoleDeleteCommission
  \/ get_db

SpecDenied == Init /\ [][NextDenied]_vars

\* The roles that the dependency of each handler lets through
RequiredRoles(op) ==
  CASE op = "update_invoice" -> PERMISSION_MATRIX["invoice:update"]
    [] op = "delete_invoice" -> PERMISSION_MATRIX["invoice:delete"]
    [] op = "create_commission_snapshot" ->
         PERMISSION_MATRIX["commission:create_snapshot"]
    [] op = "create_invoice_item" -> {"OWNER", "ACCOUNTANT"}
    [] op \in {"lock_invoice", "unlock_invoice", "approve_commission",
               "mark_commission_paid", "delete_commission"} -> {"OWNER"}
    [] OTHER -> {"OWNER", "ACCOUNTANT", "SALES"}

\* The invoice or commission of the caller's tenant that the request names
Addressed(op, u, hdr, id) ==
  IF op \in {"approve_commission", "mark_commission_paid", "delete_commission"}
  THEN OwnCommission(u, hdr, id)
  ELSE Target(u, hdr, id)

\* C39: a request of a member whose role is not among the roles its handler
\* requires is answered 403 and writes nothing, both when the invoice or
\* commission it names exists in the member's tenant and when it does not.
C39_RoleCheckFirst ==
  [][(/\ last = Idle
      /\ RoleOf(last'.user, last'.hdr) \in {"OWNER", "ACCOUNTANT", "SALES"}
      /\ RoleOf(last'.user, last'.hdr) \notin RequiredRoles(last'.op)) =>
       (last'.code = 403 /\ UNCHANGED store)]_vars

\* C39 happens: the accountant's delete_commission has just been refused 403
\* although no commission with that id exists, while the tenant has an
\* invoice.
C39_Witness ==
  /\ last.op = "delete_commission"
  /\ last.code = 403
  /\ RoleOf(last.user, last.hdr) = "ACCOUNTANT"
  /\ Addressed(last.op, last.user, last.hdr, last.id) = {}
  /\ invoices # {}


\* ------------------------------------------------------------------------
\* Concurrent requests of two tenants (specification SpecContext): members
\* of company 1 and of company 2 list and create customers; the steps of
\* their requests interleave.
\* ------------------------------------------------------------------------
ContextListCustomers ==
  \E r \in Requests, x \in TenantContexts, company_id \in {None, 1, 2} :
    resolve_context(r, "list_customers", "customer:read", x[1], x[2],
                    company_id)

ContextCreateCustomer ==
  \E r \in Requests, x \in TenantContexts, company_id \in {1, 2} :
    resolve_context(r, "create_customer", "customer:create", x[1], x[2],
                    company_id)

ContextListBody == \E r \in Requests : list_customers_body(r)

ContextCreateBody == \E r \in Requests : create_customer_body(r)

ContextClose == \E r \in Requests : close_session(r)

NextContext ==
  \/ ContextListCustomers
  \/ ContextCreateCustomer
  \/ ContextListBody
  \/ ContextCreateBody
  \/ ContextClose

SpecContext == Init /\ [][NextContext]_vars

\* C40: whatever the order of the steps of concurrent requests, the body of
\* a request reads and writes under the tenant resolved for its own caller:
\* a list_customers answered 200 returns exactly the customers of the
\* caller's tenant, a create_customer inserts only a customer of the
\* caller's tenant, and a request naming another company is answered 403.
C40_TenantPerRequest ==
  [][\A r \in Requests :
       (/\ sessions[r].pc \in {"list_customers", "create_customer"}
        /\ sessions'[r].pc = "done") =>
         LET tenant == TenantOf(sessions[r].user, sessions[r].hdr)
         IN /\ \A c \in customers' \ customers : c.company_id = tenant
            /\ sessions'[r].code = 200 =>
                 sessions'[r].loaded =
                   {c \in customers : c.company_id = tenant}
            /\ (sessions[r].id # None /\ sessions[r].id # tenant) =>
                 sessions'[r].code = 403]_vars

\* C40 happens: a request of a member of company 1 has been answered with
\* the customers of company 1 while a request of a member of company 2 is in
\* flight with its tenant resolved.
C40_Witness ==
  \E r \in Requests : \E q \in Requests :
    /\ sessions[r].pc = "done"
    /\ sessions[r].code = 200
    /\ TenantOf(sessions[r].user, sessions[r].hdr) = 1
    /\ sessions[r].loaded # {}
    /\ \A c \in sessions[r].loaded : c.company_id = 1
    /\ sessions[q].pc \in {"list_customers", "create_customer"}
    /\ sessions[q].company_id = 2

====
